---------------------------- MODULE Spec2Model ----------------------------
(***************************************************************************)
(* Model of the progress-bar processor of video-progress-bar-cli:          *)
(*   - FFmpegProgressParser        (utils/progress_parser.py)              *)
(*   - ProgressBarProcessor.process and the ffmpeg child it drives         *)
(*                                  (processors/progress_bar.py)           *)
(*   - ProgressBarProcessor._build_filter_complex                          *)
(*                                                                         *)
(* Units.  Media times, chapter times, durations and wall-clock readings   *)
(* are integers in centiseconds (the finest grain the ffmpeg time= field   *)
(* carries).  Quotients of them (progress, speed, ETA) are exact rationals *)
(* <<numerator, denominator>> in lowest terms with a positive denominator. *)
(***************************************************************************)
EXTENDS Integers, Sequences, FiniteSets, TLC

VARIABLES
    \* ---- constructor arguments of ProgressBarProcessor ----
    chapters,      \* self.chapters_data: sorted sequence of [time, title]
    colors,        \* [bg, bar, divider]: self.bg_color, bar_color, divider_color
    style,         \* [font, fade]: self.font_path is set, title_fade_duration
    hasCb,         \* whether process() was given a progress_callback
    args,          \* the arguments of the call under way (constructor or helper)
    ret,           \* what a helper call returned
    \* ---- process() ----
    pc,            \* position of process()
    duration,      \* local `duration` (centiseconds), -1 before the probe
    width,         \* local `video_width`, -1 before the probe
    height,        \* local `video_height`, -1 before the probe
    graph,         \* local `filter_str`, as a sequence of operations
    phases,        \* history: the steps of process() completed so far
    stderrLines,   \* local `stderr_lines`
    err,           \* the exception process() raised, if any
    \* ---- the renderer (ffmpeg child) and its two pipes ----
    rstate,        \* "none" | "running" | "exited"
    rcode,         \* exit status once exited
    rwait,         \* "none" | "err" | "out": the write() the renderer is blocked in
    errPipe,       \* lines written to stderr and not yet read
    errOpen,       \* the renderer's end of stderr is open
    outFill,       \* chunks sitting in the stdout pipe
    written,       \* history: the lines the renderer wrote to stderr, in order
    termSent,      \* process.terminate() was called
    killSent,      \* process.kill() was called
    \* ---- FFmpegProgressParser and the callback ----
    P,             \* the parser's fields
    now,           \* last wall-clock reading (datetime.now())
    cbLog,         \* values handed to progress_callback, in order
    cbOutcomes,    \* history: for each call, whether the callback raised
    clockLog,      \* history: the clock reading of each loop iteration
    lastLine,      \* the line handled by the latest loop iteration
    lastRet,       \* what parse_line returned for it
    lastCalls,     \* how many times that iteration invoked the callback
    prevP          \* the parser's fields before that iteration

vars == <<chapters, colors, style, hasCb, args, ret, pc, duration, width,
          height, graph, phases,
          stderrLines, err, rstate, rcode, rwait, errPipe, errOpen, outFill,
          written, termSent, killSent, P, now, cbLog, cbOutcomes, clockLog,
          lastLine, lastRet, lastCalls, prevP>>

cfgVars    == <<chapters, colors, style, hasCb, args, ret>>
procVars   == <<pc, duration, width, height, graph, phases, stderrLines,
                err>>
rendVars   == <<rstate, rcode, rwait, errPipe, errOpen, outFill, written,
                termSent, killSent>>
parserVars == <<P, now, cbLog, cbOutcomes, clockLog, lastLine, lastRet,
                lastCalls, prevP>>

-----------------------------------------------------------------------------
(* Bounds of the model *)

\* lines the renderer writes to stderr in one run / lines fed to a parser
MaxLines == 2
\* capacity of an OS pipe, counted in lines (stderr) or chunks (stdout)
PipeCap == 1
\* lines fed to a stand-alone parser
MaxFeed == 2
\* chapters in a chapter list
MaxChapters == 2

-----------------------------------------------------------------------------
(* Exact rational arithmetic *)

RECURSIVE Gcd(_, _)
Gcd(a, b) == IF b = 0 THEN a ELSE Gcd(b, a % b)

Abs(x) == IF x < 0 THEN -x ELSE x

\* n/d in lowest terms, d # 0
Rat(n, d) ==
    LET g == Gcd(Abs(n), Abs(d))
        s == IF d < 0 THEN -1 ELSE 1
    IN  <<(s * n) \div g, (s * d) \div g>>

RInt(n)    == <<n, 1>>
RAdd(a, b) == Rat(a[1] * b[2] + b[1] * a[2], a[2] * b[2])
RSub(a, b) == Rat(a[1] * b[2] - b[1] * a[2], a[2] * b[2])
RMul(a, b) == Rat(a[1] * b[1], a[2] * b[2])
RDiv(a, b) == Rat(a[1] * b[2], a[2] * b[1])
RLe(a, b)  == a[1] * b[2] <= b[1] * a[2]
RLt(a, b)  == a[1] * b[2] < b[1] * a[2]
RMin(a, b) == IF RLe(a, b) THEN a ELSE b
RMax(a, b) == IF RLe(a, b) THEN b ELSE a

R0 == RInt(0)
R1 == RInt(1)

-----------------------------------------------------------------------------
(* Lines of the renderer's diagnostic stream.                              *)
(* A line is what the four regular expressions of FFmpegProgressParser see *)
(* in it: which time pattern matches and with which digit groups, and the  *)
(* digit groups of frame= and speed= (speed in hundredths).                *)

NoTime            == [kind |-> "none",  h |-> 0, m |-> 0, s |-> 0, c |-> 0]
Hms(hh, mm, ss, cc) == [kind |-> "hms",   h |-> hh, m |-> mm, s |-> ss, c |-> cc]
Short(ss, cc)     == [kind |-> "short", h |-> 0, m |-> 0, s |-> ss, c |-> cc]

NoField == -1

Line(t, f, sp) == [tm |-> t, frame |-> f, speed |-> sp]

\* 'time=00:00:10.00'
L10    == Line(Hms(0, 0, 10, 0), NoField, NoField)
\* 'time=00:00:20.00'
L20    == Line(Hms(0, 0, 20, 0), NoField, NoField)
\* 'frame= 3000 ... time=00:02:00.00 ... speed=2.5x'
L120   == Line(Hms(0, 2, 0, 0), 3000, 250)
\* 'time=5.50'
LShort == Line(Short(5, 50), NoField, NoField)
\* 'time=00:00:00.00'
LZero  == Line(Hms(0, 0, 0, 0), NoField, NoField)
\* 'frame=  100 fps= 25 speed=2.0x'   (no time field)
LAux   == Line(NoTime, 100, 200)
\* 'Press [q] to stop'                (nothing recognised)
LJunk  == Line(NoTime, NoField, NoField)
\* 'frame=  200 ... time=00:00:30.00 ... speed=0.0x'
LStall == Line(Hms(0, 0, 30, 0), 200, 0)

Lines == {L10, L20, L120, LShort, LZero, LAux, LJunk, LStall}

\* wall-clock time that can pass between two readings of the clock (cs)
Elapses == {0, 30, 100}

-----------------------------------------------------------------------------
(* FFmpegProgressParser *)

\* __init__
NewParser(total, t) ==
    [total_duration   |-> total,
     last_progress    |-> R0,
     last_time        |-> 0,
     start_time       |-> t,
     last_update_time |-> t,
     current_speed    |-> R1,
     processed_frames |-> 0]

None == [some |-> FALSE, v |-> R0]
Some(x) == [some |-> TRUE, v |-> x]

\* _parse_time: elapsed media time in centiseconds, or None
ParseTime(line) ==
    CASE line.tm.kind = "hms" ->
           Some(RInt((line.tm.h * 3600 + line.tm.m * 60 + line.tm.s) * 100
                     + line.tm.c))
      [] line.tm.kind = "short" ->
           Some(RInt(line.tm.s * 100 + line.tm.c))
      [] OTHER -> None

\* a variant of _update_speed that stores the instantaneous speed unsmoothed
UpdateSpeedNoSmoothing(p, current_time, t) ==
    LET time_delta == t - p.last_update_time
        time_progress == current_time - p.last_time
    IN  IF time_delta > 50 /\ time_progress > 0
        THEN [p EXCEPT !.current_speed = Rat(time_progress, time_delta),
                       !.last_update_time = t]
        ELSE p

\* _update_speed
UpdateSpeed(p, current_time, t) ==
    LET time_delta == t - p.last_update_time
        time_progress == current_time - p.last_time
    IN  IF time_delta > 50 /\ time_progress > 0
        THEN LET actual_speed == Rat(time_progress, time_delta)
             IN  [p EXCEPT
                    !.current_speed =
                        RAdd(RMul(Rat(7, 10), p.current_speed),
                             RMul(Rat(3, 10), actual_speed)),
                    !.last_update_time = t]
        ELSE p

\* _parse_other_info
ParseOtherInfo(p, line) ==
    LET p1 == IF line.frame # NoField
              THEN [p EXCEPT !.processed_frames = line.frame] ELSE p
    IN  IF line.speed # NoField
        THEN [p1 EXCEPT !.current_speed = Rat(line.speed, 100)] ELSE p1

\* parse_line: [raised, ret, st].  A zero total_duration makes the division
\* raise ZeroDivisionError before anything is stored.
ParseLine(p, line, t) ==
    LET tm == ParseTime(line) IN
    IF ~tm.some
    THEN [raised |-> FALSE, ret |-> None, st |-> p]
    ELSE IF p.total_duration = 0
    THEN [raised |-> TRUE, ret |-> None, st |-> p]
    ELSE LET time_seconds == tm.v[1]
             progress == RMin(Rat(time_seconds, p.total_duration), R1)
             p1 == UpdateSpeed(p, time_seconds, t)
             p2 == ParseOtherInfo(p1, line)
         IN  [raised |-> FALSE,
              ret    |-> Some(progress),
              st     |-> [p2 EXCEPT !.last_progress = progress,
                                    !.last_time = time_seconds]]

\* a variant of get_eta without the two clamps at zero
GetEtaUnclamped(p) ==
    IF RLe(p.current_speed, R0) \/ RLe(p.last_progress, R0)
    THEN None
    ELSE Some(RDiv(Rat(p.total_duration - p.last_time, 100), p.current_speed))

\* get_eta, in seconds; None stands for 'unknown'
GetEta(p) ==
    IF RLe(p.current_speed, R0) \/ RLe(p.last_progress, R0)
    THEN None
    ELSE IF RLe(RSub(R1, p.last_progress), R0)
    THEN Some(R0)
    ELSE Some(RMax(R0, RDiv(Rat(p.total_duration - p.last_time, 100),
                            p.current_speed)))

-----------------------------------------------------------------------------
(* Colours.  A colour string is described by what convert_color_to_ffmpeg_ *)
(* format looks at: the text before the first '@' (base), the number of    *)
(* '@' in the string (nAt) and, for the text after the first '@', whether  *)
(* float() accepts it (alphaOk) and its value in hundredths (alpha).       *)
(* float() also accepts 'nan' and 'inf': alphaKind tells these apart from  *)
(* the finite values.                                                      *)

Color(b, n, ok, a) ==
    [base |-> b, nAt |-> n, alphaOk |-> ok, alpha |-> a, alphaKind |-> "finite"]

\* 'base@nan' and 'base@inf'
ColorNonFinite(b, kind) ==
    [base |-> b, nAt |-> 1, alphaOk |-> TRUE, alpha |-> 0, alphaKind |-> kind]

\* int(x) of Python for x = n / d, d > 0: truncation towards zero
IntTrunc(n, d) == IF n >= 0 THEN n \div d ELSE -((-n) \div d)

NamedColors ==
    [black   |-> <<0, 0, 0>>,     white   |-> <<255, 255, 255>>,
     red     |-> <<255, 0, 0>>,   green   |-> <<0, 255, 0>>,
     blue    |-> <<0, 0, 255>>,   yellow  |-> <<255, 255, 0>>,
     cyan    |-> <<0, 255, 255>>, magenta |-> <<255, 0, 255>>]

IsHash(b) == b \in {"#007AFF", "#00AAAA"}
Is0x(b)   == b \in {"0x00AAAA"}

\* COLOR_SCHEMES["default"]
DefaultBg      == Color("black", 1, TRUE, 60)
DefaultBar     == Color("#007AFF", 1, TRUE, 90)
DefaultDivider == Color("white", 1, TRUE, 60)
DefaultText    == Color("white", 0, TRUE, 0)
\* a caller-supplied colour whose alpha is not a number: 'white@abc'
BadAlphaColor  == Color("white", 1, FALSE, 0)

\* a variant of the conversion that passes an unparsable alpha through
ConvertColorLenient(c) ==
    [raised |-> FALSE, out |-> [fmt |-> "asis", base |-> c.base, a |-> c.alpha]]

\* a variant of the conversion that rounds the alpha byte to the nearest
\* integer instead of truncating it
ConvertColorRounding(c) ==
    IF c.nAt = 1 /\ (c.base \in DOMAIN NamedColors \/ IsHash(c.base))
    THEN [raised |-> ~c.alphaOk,
          out |-> [fmt |-> "0xRGBA", base |-> c.base,
                   a |-> IntTrunc(c.alpha * 255 + 50, 100)]]
    ELSE [raised |-> c.nAt = 1 /\ ~c.alphaOk,
          out |-> [fmt |-> "asis", base |-> c.base, a |-> c.alpha]]

\* convert_color_to_ffmpeg_format: [raised, out].  float(parts[1]) is
\* evaluated for every string with exactly one '@', whatever the base;
\* int(alpha * 255) raises for nan and inf, and is evaluated only for a
\* table name or a '#' base.
ConvertColor(c) ==
    IF c.base = "" /\ c.nAt = 0
    THEN [raised |-> FALSE, out |-> [fmt |-> "name", base |-> "black", a |-> -1]]
    ELSE IF c.nAt = 1 /\ ~c.alphaOk
    THEN [raised |-> TRUE, out |-> [fmt |-> "none", base |-> "", a |-> -1]]
    ELSE IF /\ c.nAt = 1 /\ c.alphaKind # "finite"
            /\ (c.base \in DOMAIN NamedColors \/ IsHash(c.base))
    THEN [raised |-> TRUE, out |-> [fmt |-> "none", base |-> "", a |-> -1]]
    ELSE IF c.nAt = 1 /\ c.base \in DOMAIN NamedColors
    THEN [raised |-> FALSE,
          out |-> [fmt |-> "0xRGBA", base |-> c.base,
                   a |-> IntTrunc(c.alpha * 255, 100)]]
    ELSE IF c.nAt = 1 /\ IsHash(c.base)
    THEN [raised |-> FALSE,
          out |-> [fmt |-> "0xRGBA", base |-> c.base,
                   a |-> IntTrunc(c.alpha * 255, 100)]]
    ELSE IF c.nAt = 0 /\ c.base \in DOMAIN NamedColors
    THEN [raised |-> FALSE, out |-> [fmt |-> "name", base |-> c.base, a |-> -1]]
    ELSE IF c.nAt = 0 /\ IsHash(c.base)
    THEN [raised |-> FALSE, out |-> [fmt |-> "0xRGB", base |-> c.base, a |-> -1]]
    ELSE [raised |-> FALSE, out |-> [fmt |-> "asis", base |-> c.base, a |-> c.alpha]]

\* The characters of the strings the conversion returns.
HexDigits ==
    <<"0", "1", "2", "3", "4", "5", "6", "7", "8", "9",
      "A", "B", "C", "D", "E", "F">>

RECURSIVE HexOf(_)
HexOf(n) ==
    IF n < 16 THEN <<HexDigits[n + 1]>>
    ELSE Append(HexOf(n \div 16), HexDigits[(n % 16) + 1])

\* format(n, "02X")
Format02X(n) ==
    IF n < 0 THEN <<"-">> \o HexOf(-n)
    ELSE IF n < 16 THEN <<"0">> \o HexOf(n)
    ELSE HexOf(n)

\* the characters after '#' of the hex colours of the model
HashDigits ==
    [b \in {"#007AFF", "#00AAAA"} |->
        IF b = "#007AFF" THEN <<"0", "0", "7", "A", "F", "F">>
        ELSE <<"0", "0", "A", "A", "A", "A">>]

\* the string returned for a converted colour `out`, as its characters;
\* a colour returned as it came is the one token <<c>>
ColorString(out) ==
    CASE out.fmt = "0xRGBA" /\ out.base \in DOMAIN NamedColors ->
           <<"0", "x">> \o Format02X(NamedColors[out.base][1])
                       \o Format02X(NamedColors[out.base][2])
                       \o Format02X(NamedColors[out.base][3])
                       \o Format02X(out.a)
      [] out.fmt = "0xRGBA" /\ out.base \notin DOMAIN NamedColors ->
           <<"0", "x">> \o HashDigits[out.base] \o Format02X(out.a)
      [] out.fmt = "0xRGB" -> <<"0", "x">> \o HashDigits[out.base]
      [] OTHER -> <<out.base>>

\* A colour string as the pieces the conversion tells apart: the text
\* before the first '@', then each '@' and the text after it, e.g.
\* <<"white", "@", "0.5">>; a returned '0x...' string is its characters.
AtCount(str) == Cardinality({i \in 1..Len(str) : str[i] = "@"})

\* float(s) for the alpha texts of the model: [ok, kind, v], v in hundredths
FloatOf(tok) ==
    CASE tok = "0"    -> [ok |-> TRUE, kind |-> "finite", v |-> 0]
      [] tok = "0.5"  -> [ok |-> TRUE, kind |-> "finite", v |-> 50]
      [] tok = "0.6"  -> [ok |-> TRUE, kind |-> "finite", v |-> 60]
      [] tok = "0.9"  -> [ok |-> TRUE, kind |-> "finite", v |-> 90]
      [] tok = "1.0"  -> [ok |-> TRUE, kind |-> "finite", v |-> 100]
      [] tok = "1.5"  -> [ok |-> TRUE, kind |-> "finite", v |-> 150]
      [] tok = "-0.5" -> [ok |-> TRUE, kind |-> "finite", v |-> -50]
      [] tok = "nan"  -> [ok |-> TRUE, kind |-> "nan", v |-> 0]
      [] tok = "inf"  -> [ok |-> TRUE, kind |-> "inf", v |-> 0]
      [] OTHER        -> [ok |-> FALSE, kind |-> "finite", v |-> 0]

\* what the conversion looks at in a colour string
Describe(str) ==
    LET n    == AtCount(str)
        base == IF str = <<>> \/ str[1] = "@" THEN ""
                ELSE IF Len(str) >= 2 /\ str[1] = "0" /\ str[2] = "x" THEN "0x"
                ELSE str[1]
        tok  == IF n = 1 /\ str[Len(str)] # "@" THEN str[Len(str)] ELSE ""
        f    == FloatOf(tok)
    IN  [base |-> base, nAt |-> n, alphaOk |-> f.ok, alpha |-> f.v,
         alphaKind |-> f.kind]

\* convert_color_to_ffmpeg_format on strings: [raised, value]
ConvertColorString(str) ==
    LET r == ConvertColor(Describe(str))
    IN  [raised |-> r.raised,
         value  |-> IF r.raised THEN <<>>
                    ELSE IF r.out.fmt = "asis" THEN str
                    ELSE IF r.out.fmt = "name" THEN <<r.out.base>>
                    ELSE ColorString(r.out)]

-----------------------------------------------------------------------------
(* Text fitting.  A title is a sequence of characters; "W" stands for a    *)
(* character of the CJK ranges (full width), anything else is narrow.      *)

IsWide(ch) == ch = "W"

\* the per-character width estimate of _truncate_text_by_width
CharWidth(ch, font_size) ==
    IF IsWide(ch) THEN RInt(font_size) ELSE Rat(font_size, 2)

\* a variant of the loop that skips a character that does not fit and goes
\* on with the next one
RECURSIVE TruncLoopSkipping(_, _, _, _, _, _)
TruncLoopSkipping(text, i, max_width_px, font_size, estimated_width, truncated_text) ==
    IF i > Len(text)
    THEN truncated_text
    ELSE LET char_width == CharWidth(text[i], font_size) IN
         IF RLe(RAdd(estimated_width, char_width), max_width_px)
         THEN TruncLoopSkipping(text, i + 1, max_width_px, font_size,
                                RAdd(estimated_width, char_width),
                                Append(truncated_text, text[i]))
         ELSE TruncLoopSkipping(text, i + 1, max_width_px, font_size,
                                estimated_width, truncated_text)

RECURSIVE TruncLoop(_, _, _, _, _, _)
TruncLoop(text, i, max_width_px, font_size, estimated_width, truncated_text) ==
    IF i > Len(text)
    THEN text
    ELSE LET char_width == CharWidth(text[i], font_size) IN
         IF RLe(RAdd(estimated_width, char_width), max_width_px)
         THEN TruncLoop(text, i + 1, max_width_px, font_size,
                        RAdd(estimated_width, char_width),
                        Append(truncated_text, text[i]))
         ELSE truncated_text

\* the width estimate of a whole text
RECURSIVE EstimatedWidth(_, _)
EstimatedWidth(text, font_size) ==
    IF text = <<>> THEN R0
    ELSE RAdd(EstimatedWidth(SubSeq(text, 1, Len(text) - 1), font_size),
              CharWidth(text[Len(text)], font_size))

\* a variant that shortens a text that does not fit by one character per call
TruncateOneCharacter(text, max_width_px, font_size) ==
    IF text = <<>>
    THEN text
    ELSE IF RLt(max_width_px, Rat(font_size, 2))
    THEN <<>>
    ELSE IF RLe(EstimatedWidth(text, font_size), max_width_px)
    THEN text
    ELSE SubSeq(text, 1, Len(text) - 1)

\* _truncate_text_by_width
TruncateTextByWidth(text, max_width_px, font_size) ==
    IF text = <<>>
    THEN text
    ELSE IF RLt(max_width_px, Rat(font_size, 2))
    THEN <<>>
    ELSE TruncLoop(text, 1, max_width_px, font_size, R0, <<>>)

\* the chained str.replace calls that escape a title for drawtext
EscapeChar(ch) ==
    CASE ch = ":" -> "\\:"
      [] ch = "'" -> "'\\''"
      [] ch = "[" -> "\\["
      [] ch = "]" -> "\\]"
      [] OTHER    -> ch

EscapeTitle(text) == [i \in 1..Len(text) |-> EscapeChar(text[i])]

-----------------------------------------------------------------------------
(* _build_filter_complex *)

\* defaults of ProgressBarProcessor.__init__
bar_height    == 80
divider_width == 2
font_size     == 28

Chapter(t, ttl) == [time |-> t, title |-> ttl]

\* <<quotient, remainder>> of a * b by c, by doubling, so that no
\* intermediate product leaves the 32-bit integers (0 <= a, 0 <= b, 0 < c)
RECURSIVE MulDivMod(_, _, _)
MulDivMod(a, b, c) ==
    IF b = 0 THEN <<0, 0>>
    ELSE LET h  == MulDivMod(a, b \div 2, c)
             q2 == 2 * h[1] + ((2 * h[2]) \div c)
             r2 == (2 * h[2]) % c
         IN  IF b % 2 = 0 THEN <<q2, r2>>
             ELSE <<q2 + (a \div c) + ((r2 + (a % c)) \div c),
                    (r2 + (a % c)) % c>>

\* round(n / d, 6), in millionths (ties to even)
Round6(n, d) ==
    LET qr == MulDivMod(n, 1000000, d)
        q == qr[1]
        r == qr[2]
    IN  IF 2 * r > d THEN q + 1
        ELSE IF 2 * r = d THEN q + (q % 2)
        ELSE q

\* a variant of the centre computation that takes the end of the segment
RoundHalfAtEnd(a, b) == b

\* round((a + b) / 2, 6) for a, b in millionths
RoundHalf(a, b) ==
    LET q == (a + b) \div 2
    IN  IF (a + b) % 2 = 0 THEN q ELSE q + (q % 2)

\* the end of chapter i's segment, before clamping
EndTime(chs, i, dur) == IF i + 1 <= Len(chs) THEN chs[i + 1].time ELSE dur

Min(a, b) == IF a <= b THEN a ELSE b
Max(a, b) == IF a >= b THEN a ELSE b

\* a variant of pass 3 that also draws a divider for a chapter at the start
RECURSIVE DividerOpsAlsoAtStart(_, _, _, _)
DividerOpsAlsoAtStart(chs, i, dur, color) ==
    IF i > Len(chs) THEN <<>>
    ELSE LET start_time == chs[i].time
             rest == DividerOpsAlsoAtStart(chs, i + 1, dur, color)
         IN  IF start_time >= dur THEN rest
             ELSE <<[op |-> "drawbox", x |-> Round6(start_time, dur),
                     w |-> divider_width, h |-> bar_height,
                     color |-> color]>> \o rest

\* a variant of pass 3 that draws one divider per distinct timestamp
RECURSIVE DividerOpsOncePerTime(_, _, _, _)
DividerOpsOncePerTime(chs, i, dur, color) ==
    IF i > Len(chs) THEN <<>>
    ELSE LET start_time == chs[i].time
             rest == DividerOpsOncePerTime(chs, i + 1, dur, color)
         IN  IF start_time >= dur THEN rest
             ELSE IF start_time > 50 /\ (i = 1 \/ chs[i - 1].time # start_time)
             THEN <<[op |-> "drawbox", x |-> Round6(start_time, dur),
                     w |-> divider_width, h |-> bar_height,
                     color |-> color]>> \o rest
             ELSE rest

\* pass 3: chapter dividers, for chapters i..Len(chs)
RECURSIVE DividerOps(_, _, _, _)
DividerOps(chs, i, dur, color) ==
    IF i > Len(chs) THEN <<>>
    ELSE LET start_time == chs[i].time
             rest == DividerOps(chs, i + 1, dur, color)
         IN  IF start_time >= dur THEN rest
             ELSE IF start_time > 50
             THEN <<[op |-> "drawbox", x |-> Round6(start_time, dur),
                     w |-> divider_width, h |-> bar_height,
                     color |-> color]>> \o rest
             ELSE rest

\* a variant of pass 4 that draws the whole title whatever the segment width
RECURSIVE LabelOpsUntruncated(_, _, _, _, _)
LabelOpsUntruncated(chs, i, dur, w, st) ==
    IF i > Len(chs) THEN <<>>
    ELSE LET start_time == chs[i].time
             title == chs[i].title
             rest == LabelOpsUntruncated(chs, i + 1, dur, w, st)
         IN  IF title = <<>> \/ ~st.font THEN rest
             ELSE IF start_time >= dur THEN rest
             ELSE LET end_time == Min(EndTime(chs, i, dur), dur)
                      start_pct == Round6(start_time, dur)
                      end_pct == Round6(end_time, dur)
                  IN  <<[op |-> "label",
                         text |-> EscapeTitle(title),
                         center |-> RoundHalf(start_pct, end_pct),
                         fontsize |-> font_size]>> \o rest

\* pass 4: bottom chapter labels
RECURSIVE LabelOps(_, _, _, _, _)
LabelOps(chs, i, dur, w, st) ==
    IF i > Len(chs) THEN <<>>
    ELSE LET start_time == chs[i].time
             title == chs[i].title
             rest == LabelOps(chs, i + 1, dur, w, st)
         IN  IF title = <<>> \/ ~st.font THEN rest
             ELSE IF start_time >= dur THEN rest
             ELSE LET end_time == Min(EndTime(chs, i, dur), dur)
                      start_pct == Round6(start_time, dur)
                      end_pct == Round6(end_time, dur)
                      center_pct == RoundHalf(start_pct, end_pct)
                      segment_width_px ==
                          RMul(Rat(end_pct - start_pct, 1000000), Rat(w * 9, 10))
                      truncated_title ==
                          TruncateTextByWidth(title, segment_width_px, font_size)
                  IN  IF truncated_title = <<>> THEN rest
                      ELSE <<[op |-> "label",
                              text |-> EscapeTitle(truncated_title),
                              center |-> center_pct,
                              fontsize |-> font_size]>> \o rest

\* a variant of the alpha expression whose lead-in ramp runs over the whole
\* fade duration instead of its first half
AlphaExprLongRamp(fade_start, start_time, end_time, fade_end) ==
    LET fade_in_duration ==
            IF fade_start < start_time THEN start_time - fade_start ELSE 0
        fade_out_duration ==
            IF end_time < fade_end THEN fade_end - end_time ELSE 0
        cIn  == IF fade_in_duration > 0
                THEN <<[kind |-> "in", lo |-> fade_start, hi |-> start_time,
                        len |-> 2 * fade_in_duration]>>
                ELSE <<>>
        cOne == <<[kind |-> "one", lo |-> start_time, hi |-> end_time,
                   len |-> 0]>>
        cOut == IF fade_out_duration > 0
                THEN <<[kind |-> "out", lo |-> end_time, hi |-> fade_end,
                        len |-> fade_out_duration]>>
                ELSE <<>>
    IN  cIn \o cOne \o cOut

\* the alpha expression of a corner title: the nested if(between(t,lo,hi),..)
\* clauses, outermost first; the innermost else is 0
AlphaExpr(fade_start, start_time, end_time, fade_end) ==
    LET fade_in_duration ==
            IF fade_start < start_time THEN start_time - fade_start ELSE 0
        fade_out_duration ==
            IF end_time < fade_end THEN fade_end - end_time ELSE 0
        cIn  == IF fade_in_duration > 0
                THEN <<[kind |-> "in", lo |-> fade_start, hi |-> start_time,
                        len |-> fade_in_duration]>>
                ELSE <<>>
        cOne == <<[kind |-> "one", lo |-> start_time, hi |-> end_time,
                   len |-> 0]>>
        cOut == IF fade_out_duration > 0
                THEN <<[kind |-> "out", lo |-> end_time, hi |-> fade_end,
                        len |-> fade_out_duration]>>
                ELSE <<>>
    IN  cIn \o cOne \o cOut

\* the value at playback time t (cs) of an alpha expression: the renderer
\* takes the first clause whose between(t, lo, hi) holds, and 0 if none does
RECURSIVE EvalAlpha(_, _)
EvalAlpha(clauses, t) ==
    IF clauses = <<>> THEN R0
    ELSE LET c == Head(clauses)
         IN  IF c.lo <= t /\ t <= c.hi
             THEN CASE c.kind = "in"  -> Rat(t - c.lo, c.len)
                    [] c.kind = "one" -> R1
                    [] c.kind = "out" -> RSub(R1, Rat(t - c.lo, c.len))
             ELSE EvalAlpha(Tail(clauses), t)

\* a variant of pass 5 without the `start_time >= duration` skip
RECURSIVE TitleOpsNoGuard(_, _, _, _)
TitleOpsNoGuard(chs, i, dur, st) ==
    IF i > Len(chs) THEN <<>>
    ELSE LET start_time == chs[i].time
             title == chs[i].title
             rest == TitleOpsNoGuard(chs, i + 1, dur, st)
         IN  IF title = <<>> THEN rest
             ELSE LET end_time == Min(EndTime(chs, i, dur), dur)
                      fade_half == st.fade \div 2
                      fade_start == Max(0, start_time - fade_half)
                      fade_end == Min(dur, end_time + fade_half)
                  IN  <<[op |-> "title",
                         text |-> EscapeTitle(title),
                         enable |-> <<fade_start, fade_end>>,
                         alpha |-> AlphaExpr(fade_start, start_time,
                                             end_time, fade_end)]>> \o rest

\* a variant of pass 5 whose fade window is not clamped to [0, duration]
RECURSIVE TitleOpsUnclamped(_, _, _, _)
TitleOpsUnclamped(chs, i, dur, st) ==
    IF i > Len(chs) THEN <<>>
    ELSE LET start_time == chs[i].time
             title == chs[i].title
             rest == TitleOpsUnclamped(chs, i + 1, dur, st)
         IN  IF title = <<>> THEN rest
             ELSE IF start_time >= dur THEN rest
             ELSE LET end_time == Min(EndTime(chs, i, dur), dur)
                      fade_half == st.fade \div 2
                      fade_start == start_time - fade_half
                      fade_end == end_time + fade_half
                  IN  <<[op |-> "title",
                         text |-> EscapeTitle(title),
                         enable |-> <<fade_start, fade_end>>,
                         alpha |-> AlphaExpr(fade_start, start_time,
                                             end_time, fade_end)]>> \o rest

\* pass 5: corner titles (the loop inside `if self.font_path and _has_titles()`)
RECURSIVE TitleOps(_, _, _, _)
TitleOps(chs, i, dur, st) ==
    IF i > Len(chs) THEN <<>>
    ELSE LET start_time == chs[i].time
             title == chs[i].title
             rest == TitleOps(chs, i + 1, dur, st)
         IN  IF title = <<>> THEN rest
             ELSE IF start_time >= dur THEN rest
             ELSE LET end_time == Min(EndTime(chs, i, dur), dur)
                      fade_half == st.fade \div 2
                      fade_start == Max(0, start_time - fade_half)
                      fade_end == Min(dur, end_time + fade_half)
                  IN  <<[op |-> "title",
                         text |-> EscapeTitle(title),
                         enable |-> <<fade_start, fade_end>>,
                         alpha |-> AlphaExpr(fade_start, start_time,
                                             end_time, fade_end)]>> \o rest

\* _has_titles
HasTitles(chs) == \E i \in 1..Len(chs) : chs[i].title # <<>>

\* a variant of the chain in which the corner titles come before the labels
PostFiltersTitlesFirst(chs, cols, st, dur, w) ==
    DividerOps(chs, 1, dur, ConvertColor(cols.divider).out)
    \o (IF st.font /\ HasTitles(chs) THEN TitleOps(chs, 1, dur, st) ELSE <<>>)
    \o LabelOps(chs, 1, dur, w, st)

\* the operations chained after [progress]
PostFilters(chs, cols, st, dur, w) ==
    DividerOps(chs, 1, dur, ConvertColor(cols.divider).out)
    \o LabelOps(chs, 1, dur, w, st)
    \o (IF st.font /\ HasTitles(chs) THEN TitleOps(chs, 1, dur, st) ELSE <<>>)

\* a variant of the slide expression without the shift by one frame width
SlideXNoShift(o, t) == RMul(Rat(t, o.dur), RInt(o.w))

\* the value at playback time t (cs) of the overlay's x expression
\* '(t/{duration}-1)*{video_width}'
SlideX(o, t) == RMul(RSub(Rat(t, o.dur), R1), RInt(o.w))

\* a variant of the final assembly that never renames [progress] to [out]
BuildFilterComplexKeepsProgress(chs, cols, st, dur, w) ==
    LET post_filters == PostFilters(chs, cols, st, dur, w)
        bg == [ins |-> <<"0:v">>,
               filters |-> <<[op |-> "drawbox_bg", h |-> bar_height,
                              color |-> ConvertColor(cols.bg).out]>>,
               out |-> "bg"]
        fill == [ins |-> <<"bg", "1:v">>,
                 filters |-> <<[op |-> "overlay", dur |-> dur, w |-> w]>>,
                 out |-> "progress"]
    IN  [raised |-> FALSE,
         parts |-> IF post_filters = <<>>
                   THEN <<bg, fill>>
                   ELSE <<bg, fill,
                          [ins |-> <<"progress">>,
                           filters |-> post_filters,
                           out |-> "out"]>>]

\* _build_filter_complex: [raised, parts].  It raises when a colour's alpha
\* is not a number (ValueError) and when a chapter that passes the
\* `start_time >= duration` guard is divided by a zero duration.
BuildFilterComplex(chs, cols, st, dur, w) ==
    IF \/ ConvertColor(cols.bg).raised
       \/ ConvertColor(cols.bar).raised
       \/ ConvertColor(cols.divider).raised
       \/ (dur = 0 /\ \E i \in 1..Len(chs) : chs[i].time < dur)
    THEN [raised |-> TRUE, parts |-> <<>>]
    ELSE LET post_filters == PostFilters(chs, cols, st, dur, w)
             bg == [ins |-> <<"0:v">>,
                    filters |-> <<[op |-> "drawbox_bg", h |-> bar_height,
                                   color |-> ConvertColor(cols.bg).out]>>,
                    out |-> "bg"]
             fill == [ins |-> <<"bg", "1:v">>,
                      filters |-> <<[op |-> "overlay", dur |-> dur, w |-> w]>>,
                      out |-> IF post_filters = <<>> THEN "out" ELSE "progress"]
         IN  [raised |-> FALSE,
              parts |-> IF post_filters = <<>>
                        THEN <<bg, fill>>
                        ELSE <<bg, fill,
                               [ins |-> <<"progress">>,
                                filters |-> post_filters,
                                out |-> "out"]>>]

-----------------------------------------------------------------------------
(* Inputs *)

\* what ffprobe can report as the duration (cs) and as the frame width
Durations == {0, 10000}
Widths    == {1920}
Heights   == {1080}

\* lines an ffmpeg run writes to its stderr
RendererLines == {L10, L20, LAux}

\* exit statuses: by itself, on SIGTERM, on SIGKILL
OwnExitCodes == {0, 1}
SigTermCode  == -15
SigKillCode  == -9

DefaultColors ==
    [bg |-> DefaultBg, bar |-> DefaultBar, divider |-> DefaultDivider,
     text |-> DefaultText]
DefaultStyle  == [font |-> TRUE, fade |-> 50]

\* no call with recorded arguments is under way
NoArgs == [call |-> "none"]
NoRet  == [raised |-> FALSE, value |-> <<>>]

NoErr == [kind |-> "none", cause |-> "", code |-> 0, lines |-> <<>>]
\* VideoProcessingError("FFmpeg ... (返回码: {return_code}):\n{stderr_output}")
RenderError(rc, ls) ==
    [kind |-> "VideoProcessingError", cause |-> "exit", code |-> rc, lines |-> ls]
\* VideoProcessingError("处理视频时发生错误: {str(e)}") from e
WrappedError(c) ==
    [kind |-> "VideoProcessingError", cause |-> c, code |-> 0, lines |-> <<>>]

-----------------------------------------------------------------------------
(* The body of the draining loop of process(), after readline() returned   *)
(* `line`: append, parse_line, callback inside its own try/except.         *)
(* dt is the wall-clock time since the clock was last read; cbOutcome is   *)
(* what the callback does if it is called.                                 *)

LoopBody(line, dt, cbOutcome) ==
    LET t == now + dt
        r == ParseLine(P, line, t)
        called == ~r.raised /\ r.ret.some /\ hasCb
    IN  /\ now' = t
        /\ stderrLines' = Append(stderrLines, line)
        /\ prevP' = P
        /\ lastLine' = line
        /\ lastRet' = r.ret
        /\ P' = r.st
        /\ lastCalls' = IF called THEN 1 ELSE 0
        /\ cbLog' = IF called THEN Append(cbLog, r.ret.v) ELSE cbLog
        /\ cbOutcomes' = IF called THEN Append(cbOutcomes, cbOutcome)
                         ELSE cbOutcomes
        /\ clockLog' = Append(clockLog, t)

\* a variant of the loop body without the try/except around the callback
LoopBodyRaisesUncaught(line, dt, cbOutcome) ==
    LET r == ParseLine(P, line, now + dt)
    IN  r.raised \/ (r.ret.some /\ hasCb /\ cbOutcome = "raise")

\* the iteration leaves the loop with an exception: only parse_line can
\* do that, the callback's exception is caught and logged inside the loop
LoopBodyRaises(line, dt, cbOutcome) ==
    ParseLine(P, line, now + dt).raised

LoopCause(line, dt) ==
    IF ParseLine(P, line, now + dt).raised THEN "parse" ELSE "callback"

-----------------------------------------------------------------------------
(* ProgressBarProcessor.process *)

ProbeDuration ==
    /\ pc = "start"
    /\ \/ \E d \in Durations :
            /\ duration' = d
            /\ phases' = Append(phases, "duration")
            /\ pc' = "probe_resolution"
            /\ err' = err
       \/ /\ pc' = "raised"
          /\ err' = WrappedError("probe")
          /\ UNCHANGED <<duration, phases>>
    /\ UNCHANGED <<width, height, graph, stderrLines, cfgVars, rendVars,
                   parserVars>>

ProbeResolution ==
    /\ pc = "probe_resolution"
    /\ \/ \E w \in Widths, h \in Heights :
            /\ width' = w
            /\ height' = h
            /\ phases' = Append(phases, "resolution")
            /\ pc' = "compile"
            /\ err' = err
       \/ /\ pc' = "raised"
          /\ err' = WrappedError("probe")
          /\ UNCHANGED <<width, height, phases>>
    /\ UNCHANGED <<duration, graph, stderrLines, cfgVars, rendVars,
                   parserVars>>

\* filter_str = self._build_filter_complex(duration, video_width, video_height)
Compile ==
    /\ pc = "compile"
    /\ LET r == BuildFilterComplex(chapters, colors, style, duration, width)
       IN  IF r.raised
           THEN /\ pc' = "raised"
                /\ err' = WrappedError("config")
                /\ UNCHANGED <<graph, phases>>
           ELSE /\ graph' = r.parts
                /\ phases' = Append(phases, "compile")
                /\ pc' = "build_command"
                /\ err' = err
    /\ UNCHANGED <<duration, width, height, stderrLines, cfgVars, rendVars, parserVars>>

\* cmd = self._build_ffmpeg_command(...)
BuildCommand ==
    /\ pc = "build_command"
    /\ phases' = Append(phases, "command")
    /\ pc' = "spawn"
    /\ UNCHANGED <<duration, width, height, graph, stderrLines, err, cfgVars,
                   rendVars, parserVars>>

\* subprocess.Popen(cmd, stdout=PIPE, stderr=PIPE, ...) and
\* FFmpegProgressParser(duration); Popen raises when ffmpeg cannot be run
Spawn ==
    /\ pc = "spawn"
    /\ \/ /\ rstate' = "running"
          /\ errOpen' = TRUE
          /\ P' = NewParser(duration, now)
          /\ prevP' = NewParser(duration, now)
          /\ phases' = Append(phases, "spawn")
          /\ pc' = "read"
          /\ err' = err
       \/ /\ pc' = "raised"
          /\ err' = WrappedError("spawn")
          /\ UNCHANGED <<rstate, errOpen, P, prevP, phases>>
    /\ UNCHANGED <<duration, width, height, graph, stderrLines, cfgVars, rcode, rwait,
                   errPipe, outFill, written, termSent, killSent, now, cbLog,
                   cbOutcomes, clockLog, lastLine, lastRet, lastCalls>>

\* one iteration of the loop: readline() returns a line
DrainLine ==
    /\ pc = "read"
    /\ errPipe # <<>>
    /\ \E dt \in Elapses, cbOutcome \in {"ok", "raise"} :
         LET line == Head(errPipe) IN
         /\ LoopBody(line, dt, cbOutcome)
         /\ IF LoopBodyRaises(line, dt, cbOutcome)
            THEN /\ pc' = "terminate"
                 /\ err' = WrappedError(LoopCause(line, dt))
            ELSE /\ pc' = "read"
                 /\ err' = err
    /\ errPipe' = Tail(errPipe)
    /\ UNCHANGED <<duration, width, height, graph, phases, cfgVars, rstate, rcode,
                   rwait, errOpen, outFill, written, termSent, killSent>>

\* readline() raises (UnicodeDecodeError: text=True, encoding='utf-8' and
\* the bytes at the head of the pipe are not UTF-8)
ReadError ==
    /\ pc = "read"
    /\ errPipe # <<>>
    /\ errPipe' = Tail(errPipe)
    /\ pc' = "terminate"
    /\ err' = WrappedError("read")
    /\ UNCHANGED <<duration, width, height, graph, phases, stderrLines, cfgVars,
                   rstate, rcode, rwait, errOpen, outFill, written,
                   termSent, killSent, parserVars>>

\* readline() returns '' : the pipe is empty and its write end is closed
ReadEOF ==
    /\ pc = "read"
    /\ errPipe = <<>>
    /\ ~errOpen
    /\ pc' = "wait"
    /\ phases' = Append(phases, "eof")
    /\ UNCHANGED <<duration, width, height, graph, stderrLines, err, cfgVars,
                   rendVars, parserVars>>

\* a variant of the wait that does not look at the return code
WaitIgnoresCode ==
    /\ pc = "wait"
    /\ rstate = "exited"
    /\ phases' = Append(phases, "wait")
    /\ pc' = "returned"
    /\ UNCHANGED <<duration, width, height, graph, stderrLines, err, cfgVars, rendVars,
                   parserVars>>

\* return_code = process.wait(); if return_code != 0: raise ...
Wait ==
    /\ pc = "wait"
    /\ rstate = "exited"
    /\ phases' = Append(phases, "wait")
    /\ IF rcode = 0
       THEN /\ pc' = "returned"
            /\ err' = err
       ELSE /\ pc' = "terminate"
            /\ err' = RenderError(rcode, stderrLines)
    /\ UNCHANGED <<duration, width, height, graph, stderrLines, cfgVars, rendVars,
                   parserVars>>

\* except Exception: process.terminate()  (no signal once the child is gone)
Terminate ==
    /\ pc = "terminate"
    /\ termSent' = (termSent \/ rstate = "running")
    /\ phases' = Append(phases, "terminate")
    /\ pc' = "wait5"
    /\ UNCHANGED <<duration, width, height, graph, stderrLines, err, cfgVars, rstate,
                   rcode, rwait, errPipe, errOpen, outFill, written, killSent,
                   parserVars>>

\* process.wait(timeout=5) returns: the child has exited
WaitExited ==
    /\ pc = "wait5"
    /\ rstate = "exited"
    /\ phases' = Append(phases, "wait5")
    /\ pc' = "reraise"
    /\ UNCHANGED <<duration, width, height, graph, stderrLines, err, cfgVars,
                   rendVars, parserVars>>

\* process.wait(timeout=5) raises TimeoutExpired: the child is still running
WaitTimeout ==
    /\ pc = "wait5"
    /\ rstate = "running"
    /\ phases' = Append(phases, "timeout")
    /\ pc' = "kill"
    /\ UNCHANGED <<duration, width, height, graph, stderrLines, err, cfgVars,
                   rendVars, parserVars>>

\* except: process.kill()
Kill ==
    /\ pc = "kill"
    /\ killSent' = (killSent \/ rstate = "running")
    /\ phases' = Append(phases, "kill")
    /\ pc' = "reraise"
    /\ UNCHANGED <<duration, width, height, graph, stderrLines, err, cfgVars, rstate,
                   rcode, rwait, errPipe, errOpen, outFill, written, termSent,
                   parserVars>>

\* `raise` in the handler, then the outer `except Exception`
Reraise ==
    /\ pc = "reraise"
    /\ pc' = "raised"
    /\ UNCHANGED <<duration, width, height, graph, phases, stderrLines, err, cfgVars,
                   rendVars, parserVars>>

-----------------------------------------------------------------------------
(* The renderer: the ffmpeg child process.  A write() to a pipe is issued  *)
(* (rwait names the stream) and completes once the pipe has room; until    *)
(* then the child is blocked in it.                                        *)

RIssueWrite ==
    /\ rstate = "running"
    /\ rwait = "none"
    /\ \/ (errOpen /\ Len(written) < MaxLines /\ rwait' = "err")
       \/ rwait' = "out"
    /\ UNCHANGED <<cfgVars, procVars, parserVars, rstate, rcode, errPipe,
                   errOpen, outFill, written, termSent, killSent>>

RCompleteErr ==
    /\ rstate = "running"
    /\ rwait = "err"
    /\ Len(errPipe) < PipeCap
    /\ \E line \in RendererLines : errPipe' = Append(errPipe, line)
    /\ written' = Append(written, errPipe'[Len(errPipe')])
    /\ rwait' = "none"
    /\ UNCHANGED <<cfgVars, procVars, parserVars, rstate, rcode, errOpen,
                   outFill, termSent, killSent>>

\* nobody reads the stdout pipe, so it only fills
RCompleteOut ==
    /\ rstate = "running"
    /\ rwait = "out"
    /\ outFill < PipeCap
    /\ outFill' = outFill + 1
    /\ rwait' = "none"
    /\ UNCHANGED <<cfgVars, procVars, parserVars, rstate, rcode, errPipe,
                   errOpen, written, termSent, killSent>>

\* the child closes its stderr and keeps running
RCloseErr ==
    /\ rstate = "running"
    /\ rwait = "none"
    /\ errOpen
    /\ errOpen' = FALSE
    /\ UNCHANGED <<cfgVars, procVars, parserVars, rstate, rcode, rwait,
                   errPipe, outFill, written, termSent, killSent>>

\* the child exits by itself; its ends of the pipes close
RExit ==
    /\ rstate = "running"
    /\ rwait = "none"
    /\ \E code \in OwnExitCodes : rcode' = code
    /\ rstate' = "exited"
    /\ errOpen' = FALSE
    /\ UNCHANGED <<cfgVars, procVars, parserVars, rwait, errPipe, outFill,
                   written, termSent, killSent>>

\* the child dies of a signal it was sent (SIGKILL, or SIGTERM if it does
\* not hold it back), also out of a blocked write()
RSignalled ==
    /\ rstate = "running"
    /\ \/ (killSent /\ rcode' = SigKillCode)
       \/ (termSent /\ rcode' = SigTermCode)
    /\ rstate' = "exited"
    /\ errOpen' = FALSE
    /\ rwait' = "none"
    /\ UNCHANGED <<cfgVars, procVars, parserVars, errPipe, outFill, written,
                   termSent, killSent>>

-----------------------------------------------------------------------------
(* Specification of one call of process() *)

ProcChapterLists ==
    {<<>>, <<Chapter(0, <<"a">>), Chapter(3000, <<>>)>>}

ProcColors ==
    {DefaultColors, [DefaultColors EXCEPT !.divider = BadAlphaColor]}

InitCommon ==
    /\ ret = NoRet
    /\ graph = <<>>
    /\ phases = <<>>
    /\ stderrLines = <<>>
    /\ err = NoErr
    /\ rstate = "none"
    /\ rcode = 0
    /\ rwait = "none"
    /\ errPipe = <<>>
    /\ errOpen = FALSE
    /\ outFill = 0
    /\ written = <<>>
    /\ termSent = FALSE
    /\ killSent = FALSE
    /\ now = 0
    /\ cbLog = <<>>
    /\ cbOutcomes = <<>>
    /\ clockLog = <<>>
    /\ lastLine = LJunk
    /\ lastRet = None
    /\ lastCalls = 0

Init ==
    /\ InitCommon
    /\ args = NoArgs
    /\ chapters \in ProcChapterLists
    /\ colors \in ProcColors
    /\ style = DefaultStyle
    /\ hasCb \in BOOLEAN
    /\ pc = "start"
    /\ duration = -1
    /\ width = -1
    /\ height = -1
    /\ P = NewParser(0, 0)
    /\ prevP = NewParser(0, 0)

Next ==
    \/ ProbeDuration \/ ProbeResolution \/ Compile \/ BuildCommand \/ Spawn
    \/ DrainLine \/ ReadError \/ ReadEOF \/ Wait
    \/ Terminate \/ WaitExited \/ WaitTimeout \/ Kill \/ Reraise
    \/ RIssueWrite \/ RCompleteErr \/ RCompleteOut \/ RCloseErr \/ RExit
    \/ RSignalled

Spec == Init /\ [][Next]_vars

-----------------------------------------------------------------------------
(* Specification of a stand-alone FFmpegProgressParser that is fed lines   *)
(* the way the draining loop feeds them                                    *)

ParserDurations == {0, 2000, 10000}

InitParser ==
    /\ InitCommon
    /\ args = NoArgs
    /\ chapters = <<>>
    /\ colors = DefaultColors
    /\ style = DefaultStyle
    /\ hasCb \in BOOLEAN
    /\ pc = "parser"
    /\ duration = -1
    /\ width = -1
    /\ height = -1
    /\ \E d \in ParserDurations :
         /\ P = NewParser(d, 0)
         /\ prevP = NewParser(d, 0)

FeedLine ==
    /\ pc = "parser"
    /\ Len(stderrLines) < MaxFeed
    /\ \E line \in Lines, dt \in Elapses, cbOutcome \in {"ok", "raise"} :
         LoopBody(line, dt, cbOutcome)
    /\ UNCHANGED <<cfgVars, pc, duration, width, height, graph, phases, err,
                   rendVars>>

SpecParser == InitParser /\ [][FeedLine]_vars

-----------------------------------------------------------------------------
(* Specification of one compilation of the filter graph *)

ChapterTimes  == {0, 30, 3000, 15000, 30000, 30100}
ChapterTitles == {<<>>, <<"a", ":">>, <<"W", "W", "a">>}
ChapterPool   == {Chapter(t, ttl) : t \in ChapterTimes, ttl \in ChapterTitles}

\* what _normalize_chapters leaves in self.chapters_data: sorted by time
IsSorted(chs) == \A i \in 1..(Len(chs) - 1) : chs[i].time <= chs[i + 1].time

ChapterLists ==
    UNION {{chs \in [1..n -> ChapterPool] : IsSorted(chs)} : n \in 0..MaxChapters}

\* the duration and the frame size _build_filter_complex can be handed
GraphDurations == {0, 30000}
GraphGeometry  == {<<1920, 1080>>, <<0, 1080>>, <<1920, 0>>}
GraphStyles    == {[font |-> f, fade |-> d] : f \in BOOLEAN, d \in {0, 50}}

\* the chapters of the documented end-to-end scenario (duration 300 s)
ScenarioChapters ==
    <<Chapter(0, <<"I", "n", "t", "r", "o">>),
      Chapter(3000, <<"P", "a", "r", "t", "1">>),
      Chapter(15000, <<"P", "a", "r", "t", "2">>)>>

GraphChapterLists == ChapterLists \cup {ScenarioChapters}

InitGraph ==
    /\ InitCommon
    /\ args = NoArgs
    /\ chapters \in GraphChapterLists
    /\ colors = DefaultColors
    /\ style \in GraphStyles
    /\ hasCb = FALSE
    /\ pc = "g_start"
    /\ duration \in GraphDurations
    /\ \E g \in GraphGeometry : width = g[1] /\ height = g[2]
    /\ P = NewParser(0, 0)
    /\ prevP = NewParser(0, 0)

CompileGraph ==
    /\ pc = "g_start"
    /\ LET r == BuildFilterComplex(chapters, colors, style, duration, width)
       IN  /\ graph' = r.parts
           /\ pc' = IF r.raised THEN "g_raised" ELSE "g_done"
    /\ UNCHANGED <<cfgVars, duration, width, height, phases, stderrLines, err,
                   rendVars, parserVars>>

SpecGraph == InitGraph /\ [][CompileGraph]_vars

-----------------------------------------------------------------------------
(* Specification of one compilation of the filter graph for a video of     *)
(* several hours with chapters close to its start and to its end           *)

LongDurations == {30000, 3000000}
LongTimes     == {0, 50, 51, 500, 1500000, 2999999, 3000000}
LongTitles    == {<<>>, <<"a">>, <<"W", "a">>}
LongPool      == {Chapter(t, ttl) : t \in LongTimes, ttl \in LongTitles}

LongChapterLists ==
    UNION {{chs \in [1..n -> LongPool] : IsSorted(chs)} : n \in 0..MaxChapters}

InitLongVideo ==
    /\ InitCommon
    /\ args = NoArgs
    /\ chapters \in LongChapterLists
    /\ colors = DefaultColors
    /\ style \in GraphStyles
    /\ hasCb = FALSE
    /\ pc = "g_start"
    /\ duration \in LongDurations
    /\ width = 1920
    /\ height = 1080
    /\ P = NewParser(0, 0)
    /\ prevP = NewParser(0, 0)

SpecLongVideo == InitLongVideo /\ [][CompileGraph]_vars

-----------------------------------------------------------------------------
(* ProgressBarProcessor.__init__: chapter normalisation and colour          *)
(* resolution                                                               *)

\* None passed (or defaulted) for a colour argument
NoColor == Color("None", 0, TRUE, -1)

\* COLOR_SCHEMES, two of its ten entries
ColorSchemes ==
    [default |->
        [bg_color |-> DefaultBg, bar_color |-> DefaultBar,
         divider_color |-> DefaultDivider, text_color |-> DefaultText],
     minimal_ink |->
        [bg_color |-> Color("white", 1, TRUE, 30),
         bar_color |-> Color("black", 1, TRUE, 80),
         divider_color |-> Color("black", 1, TRUE, 50),
         text_color |-> Color("white", 0, TRUE, 0)]]

\* a variant of the colour resolution in which a selected scheme wins over
\* an explicitly supplied bar colour
ResolveColorsSchemeWins(a) ==
    LET scheme == IF a.color_scheme \in DOMAIN ColorSchemes
                  THEN a.color_scheme ELSE "default"
        sc == ColorSchemes[scheme]
        pick(given, k) == IF given # NoColor THEN given ELSE sc[k]
    IN  [bg      |-> pick(a.bg_color, "bg_color"),
         bar     |-> IF a.color_scheme # "" THEN sc.bar_color
                     ELSE pick(a.bar_color, "bar_color"),
         divider |-> pick(a.divider_color, "divider_color"),
         text    |-> pick(a.text_color, "text_color")]

\* the colour resolution of __init__; color_scheme "" stands for None
ResolveColors(a) ==
    IF a.color_scheme # ""
    THEN LET scheme == IF a.color_scheme \notin DOMAIN ColorSchemes
                       THEN "default" ELSE a.color_scheme
             scheme_colors == ColorSchemes[scheme]
         IN  [bg      |-> IF a.bg_color # NoColor THEN a.bg_color
                          ELSE scheme_colors.bg_color,
              bar     |-> IF a.bar_color # NoColor THEN a.bar_color
                          ELSE scheme_colors.bar_color,
              divider |-> IF a.divider_color # NoColor THEN a.divider_color
                          ELSE scheme_colors.divider_color,
              text    |-> IF a.text_color # NoColor THEN a.text_color
                          ELSE scheme_colors.text_color]
    ELSE [bg      |-> IF a.bg_color # NoColor THEN a.bg_color
                      ELSE ColorSchemes.default.bg_color,
          bar     |-> IF a.bar_color # NoColor THEN a.bar_color
                      ELSE ColorSchemes.default.bar_color,
          divider |-> IF a.divider_color # NoColor THEN a.divider_color
                      ELSE ColorSchemes.default.divider_color,
          text    |-> IF a.text_color # NoColor THEN a.text_color
                      ELSE ColorSchemes.default.text_color]

\* A time string is described by what time_string_to_seconds sees in it:
\* whether float() accepts the whole string (plain), else its ':'-separated
\* parts and whether float() accepts each of them.  Parts are in the units
\* they are written in; `frac` is the hundredths of the last part.
TimeStr(ps, fr, good) == [parts |-> ps, frac |-> fr, ok |-> good]

\* a variant that reads the last three parts of a longer string
TimeStringToSecondsLastThree(ts) ==
    LET n == Len(ts.parts) IN
    IF ~ts.ok \/ n = 0
    THEN [raised |-> TRUE, v |-> 0]
    ELSE [raised |-> FALSE,
          v |-> (IF n >= 3 THEN ts.parts[n - 2] * 360000 ELSE 0)
                + (IF n >= 2 THEN ts.parts[n - 1] * 6000 ELSE 0)
                + ts.parts[n] * 100 + ts.frac]

\* time_string_to_seconds: [raised, v], v in centiseconds
TimeStringToSeconds(ts) ==
    LET n == Len(ts.parts) IN
    IF n = 1 /\ ts.ok
    THEN [raised |-> FALSE, v |-> ts.parts[1] * 100 + ts.frac]
    ELSE IF n = 2
    THEN IF ts.ok
         THEN [raised |-> FALSE,
               v |-> ts.parts[1] * 6000 + ts.parts[2] * 100 + ts.frac]
         ELSE [raised |-> TRUE, v |-> 0]
    ELSE IF n = 3
    THEN IF ts.ok
         THEN [raised |-> FALSE,
               v |-> ts.parts[1] * 360000 + ts.parts[2] * 6000
                     + ts.parts[3] * 100 + ts.frac]
         ELSE [raised |-> TRUE, v |-> 0]
    ELSE [raised |-> TRUE, v |-> 0]

\* Entries of the `chapters` argument: a bare number of seconds, a dict with
\* a numeric time, a dict with a time string, or a value of another type
BareSeconds(t)      == [kind |-> "number", time |-> t, ts |-> TimeStr(<<>>, 0, FALSE), title |-> <<>>]
DictNumber(t, ttl)  == [kind |-> "dict_number", time |-> t, ts |-> TimeStr(<<>>, 0, FALSE), title |-> ttl]
DictString(s, ttl)  == [kind |-> "dict_string", time |-> 0, ts |-> s, title |-> ttl]
OtherEntry          == [kind |-> "other", time |-> 0, ts |-> TimeStr(<<>>, 0, FALSE), title |-> <<>>]

\* the loop body of _normalize_chapters for one entry: [raised, rec]
NormalizeEntry(item) ==
    CASE item.kind = "number" ->
           [raised |-> FALSE, rec |-> Chapter(item.time, <<>>)]
      [] item.kind = "dict_number" ->
           [raised |-> FALSE, rec |-> Chapter(item.time, item.title)]
      [] item.kind = "dict_string" ->
           [raised |-> TimeStringToSeconds(item.ts).raised,
            rec |-> Chapter(TimeStringToSeconds(item.ts).v, item.title)]
      [] OTHER -> [raised |-> TRUE, rec |-> Chapter(0, <<>>)]

\* list.sort(key=lambda x: x["time"]): stable, ascending
RECURSIVE InsertByTime(_, _)
InsertByTime(sorted, c) ==
    IF sorted = <<>> THEN <<c>>
    ELSE IF sorted[Len(sorted)].time <= c.time THEN Append(sorted, c)
    ELSE Append(InsertByTime(SubSeq(sorted, 1, Len(sorted) - 1), c),
                sorted[Len(sorted)])

RECURSIVE SortByTime(_)
SortByTime(s) ==
    IF s = <<>> THEN <<>>
    ELSE InsertByTime(SortByTime(SubSeq(s, 1, Len(s) - 1)), s[Len(s)])

\* a variant of the normalisation that keeps one record per timestamp
RECURSIVE DropRepeatedTimes(_)
DropRepeatedTimes(s) ==
    IF Len(s) <= 1 THEN s
    ELSE LET init == DropRepeatedTimes(SubSeq(s, 1, Len(s) - 1))
         IN  IF init[Len(init)].time = s[Len(s)].time THEN init
             ELSE Append(init, s[Len(s)])

NormalizeChaptersDeduplicating(chs) ==
    IF \E i \in 1..Len(chs) : NormalizeEntry(chs[i]).raised
    THEN [raised |-> TRUE, value |-> <<>>]
    ELSE [raised |-> FALSE,
          value |-> DropRepeatedTimes(
                        SortByTime([i \in 1..Len(chs) |->
                                       NormalizeEntry(chs[i]).rec]))]

\* _normalize_chapters: [raised, value]
NormalizeChapters(chs) ==
    IF chs = <<>>
    THEN [raised |-> FALSE, value |-> <<>>]
    ELSE IF \E i \in 1..Len(chs) : NormalizeEntry(chs[i]).raised
    THEN [raised |-> TRUE, value |-> <<>>]
    ELSE [raised |-> FALSE,
          value |-> SortByTime([i \in 1..Len(chs) |->
                                   NormalizeEntry(chs[i]).rec])]

-----------------------------------------------------------------------------
(* Specification of one construction of a ProgressBarProcessor *)

\* '90', '01:30', '00:00:30', 'ab:cd', '1:2:3:4'
TsPlain90  == TimeStr(<<90>>, 0, TRUE)
TsMinSec   == TimeStr(<<1, 30>>, 0, TRUE)
TsHms      == TimeStr(<<0, 0, 30>>, 0, TRUE)
TsBadParts == TimeStr(<<0, 0>>, 0, FALSE)
TsFourPart == TimeStr(<<1, 2, 3, 4>>, 0, FALSE)

EntryPool ==
    {BareSeconds(3000), BareSeconds(0),
     DictNumber(3000, <<"a">>), DictNumber(9000, <<>>),
     DictString(TsPlain90, <<"b">>), DictString(TsMinSec, <<"c">>),
     DictString(TsHms, <<"d">>), DictString(TsBadParts, <<"e">>),
     DictString(TsFourPart, <<>>), OtherEntry}

ChapterInputs == UNION {[1..n -> EntryPool] : n \in 0..MaxChapters}

ExplicitColors == {NoColor, Color("red", 0, TRUE, 0)}
SchemeNames    == {"", "default", "minimal_ink", "nosuch"}

CtorArgs ==
    [call : {"init"}, chapters : ChapterInputs,
     bg_color : ExplicitColors \cup {Color("", 0, TRUE, 0)},
     bar_color : ExplicitColors, divider_color : ExplicitColors,
     text_color : ExplicitColors, color_scheme : SchemeNames]

InitCtor ==
    /\ InitCommon
    /\ args \in CtorArgs
    /\ chapters = <<>>
    /\ colors = DefaultColors
    /\ style = DefaultStyle
    /\ hasCb = FALSE
    /\ pc = "c_start"
    /\ duration = -1
    /\ width = -1
    /\ height = -1
    /\ P = NewParser(0, 0)
    /\ prevP = NewParser(0, 0)

\* __init__: self.chapters_data = self._normalize_chapters(chapters), then
\* the colour resolution
Construct ==
    /\ pc = "c_start"
    /\ LET n == NormalizeChapters(args.chapters)
       IN  IF n.raised
           THEN /\ pc' = "c_raised"
                /\ UNCHANGED <<chapters, colors>>
           ELSE /\ pc' = "c_done"
                /\ chapters' = n.value
                /\ colors' = ResolveColors(args)
    /\ UNCHANGED <<style, hasCb, args, ret, duration, width, height, graph,
                   phases, stderrLines, err, rendVars, parserVars>>

SpecCtor == InitCtor /\ [][Construct]_vars

-----------------------------------------------------------------------------
(* Specification of _truncate_text_by_width applied twice to a text *)

MaxText == 3

TextChars == {"a", "W"}
Texts     == UNION {[1..n -> TextChars] : n \in 0..MaxText}
FontSizes == {24, 25}

\* budgets in pixels: negative, zero, below and at half a character, and
\* values between and at the widths of the texts
Budgets ==
    {RInt(-1), R0, RInt(11), RInt(12), Rat(25, 2), RInt(23), RInt(24),
     RInt(30), RInt(36), Rat(75, 2), RInt(48), RInt(50), RInt(60), RInt(75)}

TruncArgs ==
    [call : {"truncate"}, text : Texts, max_width_px : Budgets,
     font_size : FontSizes]

InitText ==
    /\ InitCommon
    /\ args \in TruncArgs
    /\ chapters = <<>>
    /\ colors = DefaultColors
    /\ style = DefaultStyle
    /\ hasCb = FALSE
    /\ pc = "t_start"
    /\ duration = -1
    /\ width = -1
    /\ height = -1
    /\ P = NewParser(0, 0)
    /\ prevP = NewParser(0, 0)

\* truncated_title = self._truncate_text_by_width(title, budget, font_size);
\* ret.value collects the values returned so far
Truncate ==
    /\ pc = "t_start"
    /\ pc' = "t_once"
    /\ ret' = [raised |-> FALSE,
               value |-> <<TruncateTextByWidth(args.text, args.max_width_px,
                                               args.font_size)>>]
    /\ UNCHANGED <<chapters, colors, style, hasCb, args, duration, width,
                   height, graph, phases, stderrLines, err, rendVars,
                   parserVars>>

\* the same call on the returned text, with the same budget and font size
TruncateAgain ==
    /\ pc = "t_once"
    /\ pc' = "t_twice"
    /\ ret' = [raised |-> FALSE,
               value |-> Append(ret.value,
                                TruncateTextByWidth(ret.value[1],
                                                    args.max_width_px,
                                                    args.font_size))]
    /\ UNCHANGED <<chapters, colors, style, hasCb, args, duration, width,
                   height, graph, phases, stderrLines, err, rendVars,
                   parserVars>>

SpecText == InitText /\ [][Truncate \/ TruncateAgain]_vars

-----------------------------------------------------------------------------
(* Specification of convert_color_to_ffmpeg_format applied to a colour     *)
(* string and then to the string it returned                               *)

ColorBases ==
    {<<>>, <<"foo">>, <<"0", "x", "0", "0", "A", "A", "A", "A">>}
        \cup {<<b>> : b \in DOMAIN NamedColors}
        \cup {<<b>> : b \in DOMAIN HashDigits}

AlphaTexts ==
    {"0", "0.5", "0.6", "0.9", "1.0", "1.5", "-0.5", "nan", "inf", "abc"}

ColorSuffixes ==
    {<<>>, <<"@">>, <<"@", "0.5", "@", "x">>}
        \cup {<<"@", t>> : t \in AlphaTexts}

ColorStrings == {b \o x : b \in ColorBases, x \in ColorSuffixes}

InitColor ==
    /\ InitCommon
    /\ args \in [call : {"convert"}, color_str : ColorStrings]
    /\ chapters = <<>>
    /\ colors = DefaultColors
    /\ style = DefaultStyle
    /\ hasCb = FALSE
    /\ pc = "k_start"
    /\ duration = -1
    /\ width = -1
    /\ height = -1
    /\ P = NewParser(0, 0)
    /\ prevP = NewParser(0, 0)

\* convert_color_to_ffmpeg_format(color_str); ret.value collects the
\* strings returned so far
ConvertCall ==
    /\ pc = "k_start"
    /\ LET r == ConvertColorString(args.color_str)
       IN  IF r.raised
           THEN /\ pc' = "k_raised"
                /\ ret' = [raised |-> TRUE, value |-> <<>>]
           ELSE /\ pc' = "k_once"
                /\ ret' = [raised |-> FALSE, value |-> <<r.value>>]
    /\ UNCHANGED <<chapters, colors, style, hasCb, args, duration, width,
                   height, graph, phases, stderrLines, err, rendVars,
                   parserVars>>

\* the same call on the returned string
ConvertAgain ==
    /\ pc = "k_once"
    /\ LET r == ConvertColorString(ret.value[1])
       IN  IF r.raised
           THEN /\ pc' = "k_raised_again"
                /\ ret' = [raised |-> TRUE, value |-> ret.value]
           ELSE /\ pc' = "k_twice"
                /\ ret' = [raised |-> FALSE, value |-> Append(ret.value, r.value)]
    /\ UNCHANGED <<chapters, colors, style, hasCb, args, duration, width,
                   height, graph, phases, stderrLines, err, rendVars,
                   parserVars>>

SpecColor == InitColor /\ [][ConvertCall \/ ConvertAgain]_vars

-----------------------------------------------------------------------------
(* Specification of time_string_to_seconds applied to a time string.  A    *)
(* time string is the sequence of the texts between its ':' characters.    *)

MaxParts == 4

\* float(s) for the component texts of the model: [ok, whole, frac], the
\* value being whole + frac / 100
ComponentOf(tok) ==
    CASE tok = "0"   -> [ok |-> TRUE, whole |-> 0, frac |-> 0]
      [] tok = "1"   -> [ok |-> TRUE, whole |-> 1, frac |-> 0]
      [] tok = "05"  -> [ok |-> TRUE, whole |-> 5, frac |-> 0]
      [] tok = "30"  -> [ok |-> TRUE, whole |-> 30, frac |-> 0]
      [] tok = "90"  -> [ok |-> TRUE, whole |-> 90, frac |-> 0]
      [] tok = "1.5" -> [ok |-> TRUE, whole |-> 1, frac |-> 50]
      [] OTHER       -> [ok |-> FALSE, whole |-> 0, frac |-> 0]

\* what time_string_to_seconds sees in a time string
DescribeTime(str) ==
    TimeStr([i \in 1..Len(str) |-> ComponentOf(str[i]).whole],
            IF str = <<>> THEN 0 ELSE ComponentOf(str[Len(str)]).frac,
            \A i \in 1..Len(str) : ComponentOf(str[i]).ok)

WholeTexts == {"0", "1", "05", "30", "90"}
BadTexts   == {"abc", ""}

\* fractions are written in the last component only
TimeStrings ==
    {front \o <<last>> :
        front \in UNION {[1..n -> WholeTexts \cup BadTexts] : n \in 0..(MaxParts - 1)},
        last \in WholeTexts \cup BadTexts \cup {"1.5"}}

InitTime ==
    /\ InitCommon
    /\ args \in [call : {"time_string_to_seconds"}, time_str : TimeStrings]
    /\ chapters = <<>>
    /\ colors = DefaultColors
    /\ style = DefaultStyle
    /\ hasCb = FALSE
    /\ pc = "s_start"
    /\ duration = -1
    /\ width = -1
    /\ height = -1
    /\ P = NewParser(0, 0)
    /\ prevP = NewParser(0, 0)

\* time_string_to_seconds(time_str); the value is in centiseconds
ConvertTimeString ==
    /\ pc = "s_start"
    /\ LET r == TimeStringToSeconds(DescribeTime(args.time_str))
       IN  IF r.raised
           THEN /\ pc' = "s_raised"
                /\ ret' = [raised |-> TRUE, value |-> <<>>]
           ELSE /\ pc' = "s_done"
                /\ ret' = [raised |-> FALSE, value |-> <<r.v>>]
    /\ UNCHANGED <<chapters, colors, style, hasCb, args, duration, width,
                   height, graph, phases, stderrLines, err, rendVars,
                   parserVars>>

SpecTime == InitTime /\ [][ConvertTimeString]_vars

-----------------------------------------------------------------------------
(* Properties of process() and of the renderer it drives (Spec) *)

Has(seq, x) == \E i \in 1..Len(seq) : seq[i] = x

\* the renderer process was started
Started == Has(phases, "spawn")

\* process() has ended, by return or by raise
Finished == pc \in {"returned", "raised"}

\* C1 as claimed: process() returns the output path if and only if the
\* renderer exits with code 0; for a non-zero exit code the error carries that
\* code and every diagnostic line read, in order; the exit status is
\* evaluated only after end-of-file on the diagnostic stream.
C1_ReturnsIffExitZero ==
    /\ (pc = "returned" => rstate = "exited" /\ rcode = 0)
    /\ (Finished /\ rstate = "exited" /\ rcode = 0 => pc = "returned")
    /\ (pc = "raised" /\ rstate = "exited" /\ rcode # 0
          => err = RenderError(rcode, stderrLines))
    /\ \A i \in 1..Len(phases) :
         phases[i] = "wait" => i > 1 /\ phases[i - 1] = "eof"

\* C1 as amended: when the draining loop reaches end-of-file without an
\* exception, process() returns the output path if and only if the renderer
\* exits with code 0, and for a non-zero code it raises the error that
\* carries the code and every line the renderer wrote, in order; when
\* reading or parsing raises, process() raises whatever the exit code is.
\* The exit status is evaluated only after end-of-file.
C1_ExitStatusDecidesAfterCleanDrain ==
    /\ (pc = "returned"
          => /\ Has(phases, "eof")
             /\ rstate = "exited"
             /\ rcode = 0
             /\ err = NoErr)
    /\ (Finished /\ Has(phases, "eof")
          => /\ rstate = "exited"
             /\ (pc = "returned" <=> rcode = 0)
             /\ (rcode # 0 => /\ err = RenderError(rcode, written)
                              /\ stderrLines = written))
    /\ (pc = "raised" /\ Started /\ ~Has(phases, "eof")
          => err.cause \in {"read", "parse"})
    /\ \A i \in 1..Len(phases) :
         phases[i] = "wait" => i > 1 /\ phases[i - 1] = "eof"
    /\ (pc = "wait" => errPipe = <<>> /\ ~errOpen)

\* C1 witness: a failed render whose error carries the exit code and both
\* lines the renderer wrote
C1_Witness ==
    /\ pc = "raised"
    /\ err.cause = "exit"
    /\ err.code = 1
    /\ Len(err.lines) = 2
    /\ err.lines = written

\* C2 as claimed: an error raised after the renderer was started reaches the
\* caller only after terminate() was called, with kill() called only after
\* the 5 second wait timed out, and never while the renderer is still running.
C2_ErrorOnlyAfterRendererGone ==
    (pc = "raised" /\ Started)
       => /\ Has(phases, "terminate")
          /\ (Has(phases, "kill") => Has(phases, "timeout"))
          /\ rstate = "exited"

\* what process() does once the loop and the wait are over, as a function of
\* what happened to the stream and the renderer alone
ExpectedOutcome ==
    IF Has(phases, "wait")
    THEN IF rcode = 0 THEN <<"returned", NoErr>>
         ELSE <<"raised", RenderError(rcode, written)>>
    ELSE <<"raised", err>>

\* C3: a callback that raises is caught inside the loop: the iteration ends
\* at the head of the loop with no error pending, no signal sent and the
\* renderer untouched, and the outcome of process() is the one the stream and
\* the exit status alone determine.
C3_CallbackFailureIsSwallowed ==
    /\ [](err.cause # "callback")
    /\ [](Finished /\ Started =>
            /\ <<pc, err>> = ExpectedOutcome
            /\ err.cause \in {"", "exit", "read", "parse"})
    /\ [][(/\ Len(cbOutcomes') > Len(cbOutcomes)
           /\ cbOutcomes'[Len(cbOutcomes')] = "raise")
          => /\ pc' = "read"
             /\ err' = NoErr
             /\ termSent' = termSent /\ ~termSent
             /\ killSent' = killSent /\ ~killSent
             /\ rstate' = rstate
             /\ P' = ParseLine(P, lastLine', now').st]_vars

\* C3 witness: the callback raised on the first line, was called again for a
\* later line, and process() returned normally
C3_Witness ==
    /\ pc = "returned"
    /\ Len(cbOutcomes) >= 2
    /\ cbOutcomes[1] = "raise"
    /\ Len(cbLog) = Len(cbOutcomes)

\* the renderer is blocked in a write() to a full pipe
RendererBlocked ==
    /\ rstate = "running"
    /\ \/ (rwait = "out" /\ outFill >= PipeCap)
       \/ (rwait = "err" /\ Len(errPipe) >= PipeCap)

\* process() is blocked in readline(): nothing to read, stream not closed
MonitorWaitsForLine == pc = "read" /\ errPipe = <<>> /\ errOpen

\* C4 as claimed: no state is reachable in which the renderer waits on a
\* full pipe while the monitor waits for the next diagnostic line.
C4_NoMutualWait == ~(RendererBlocked /\ MonitorWaitsForLine)

SpawnOrder == <<"duration", "resolution", "compile", "command", "spawn">>

\* a configured colour whose alpha segment is not a number
HasBadColor ==
    \E c \in {colors.bg, colors.bar, colors.divider} : c.nAt = 1 /\ ~c.alphaOk

\* C5: the renderer is started only after the duration probe, the resolution
\* probe, the compilation and the command building, in that order; after a
\* failed probe nothing is compiled; with a colour that does not parse
\* process() fails in the compilation and no renderer is ever spawned.
C5_SpawnOnlyAfterPreparation ==
    /\ \A i \in 1..Min(Len(phases), 5) : phases[i] = SpawnOrder[i]
    /\ (rstate # "none" => Len(phases) >= 5)
    /\ (err.cause = "probe"
          => ~Has(phases, "compile") /\ graph = <<>> /\ rstate = "none")
    /\ (HasBadColor
          => /\ rstate = "none"
             /\ ~Has(phases, "compile")
             /\ pc \in {"start", "probe_resolution", "compile", "raised"}
             /\ (pc = "raised" => err.cause \in {"probe", "config"}))

\* C5 witness: both probes succeeded and the compilation failed on a colour
C5_Witness ==
    /\ pc = "raised"
    /\ err.cause = "config"
    /\ HasBadColor
    /\ phases = <<"duration", "resolution">>
    /\ rstate = "none"

-----------------------------------------------------------------------------
(* Properties of the parser (SpecParser) *)

\* at least one loop iteration has run
Fed == stderrLines # <<>>

InUnit(x) == RLe(R0, x) /\ RLe(x, R1)

\* C6 as claimed: for every line with a time field, parse_line returns
\* min(elapsed/duration, 1), stores it as last_progress with last_time =
\* elapsed, and the loop calls the callback exactly once with it; for a
\* positive duration last_progress and every callback value lie in [0, 1].
C6_ProgressIsClampedRatio ==
    /\ (Fed /\ lastLine.tm.kind # "none")
          => LET e == ParseTime(lastLine).v[1]
                 d == prevP.total_duration
                 expected == IF d = 0 THEN R1
                             ELSE IF e <= d THEN Rat(e, d) ELSE R1
             IN  /\ lastRet.some
                 /\ (d # 0 => lastRet = Some(expected))
                 /\ (d # 0 => P.last_progress = expected)
                 /\ P.last_time = e
                 /\ (hasCb => /\ lastCalls = 1
                              /\ cbLog # <<>>
                              /\ (d # 0 => cbLog[Len(cbLog)] = expected))
    /\ (P.total_duration > 0
          => /\ InUnit(P.last_progress)
             /\ \A i \in 1..Len(cbLog) : InUnit(cbLog[i]))

\* C7 as claimed: a line without a time field reports no progress and leaves
\* last_progress and last_time alone, but its frame= field updates
\* processed_frames and its speed= field updates the speed multiplier.
C7_AuxFieldsScannedWithoutTime ==
    (Fed /\ lastLine.tm.kind = "none")
       => /\ lastRet = None
          /\ lastCalls = 0
          /\ P.last_progress = prevP.last_progress
          /\ P.last_time = prevP.last_time
          /\ (lastLine.frame # NoField => P.processed_frames = lastLine.frame)
          /\ (lastLine.speed # NoField
                => P.current_speed = Rat(lastLine.speed, 100))

\* get_eta has no value to report
EtaUnknown(p) == RLe(p.current_speed, R0) \/ RLe(p.last_progress, R0)

\* (duration - lastElapsed) / currentSpeed, in seconds
EtaQuotient(p) ==
    RDiv(Rat(p.total_duration - p.last_time, 100), p.current_speed)

\* C8 as claimed: get_eta is unknown exactly when speed <= 0 or no progress
\* was observed; otherwise it is (duration - lastElapsed) / currentSpeed,
\* never negative, and zero once progress has reached 1.
C8_EtaIsQuotient ==
    /\ (GetEta(P).some <=> ~EtaUnknown(P))
    /\ (~EtaUnknown(P)
          => /\ GetEta(P).v = EtaQuotient(P)
             /\ RLe(R0, GetEta(P).v)
             /\ (P.last_progress = R1 => GetEta(P).v = R0))

\* C8 as amended: get_eta is unknown exactly when speed <= 0 or no progress
\* was observed; otherwise it is max(0, (duration - lastElapsed) /
\* currentSpeed): the quotient itself while lastElapsed <= duration, and zero
\* once progress has reached 1, also when lastElapsed overshoots the duration.
C8_EtaIsClampedQuotient ==
    /\ (GetEta(P).some <=> ~EtaUnknown(P))
    /\ (~EtaUnknown(P)
          => /\ GetEta(P).v = RMax(R0, EtaQuotient(P))
             /\ (P.last_time <= P.total_duration
                   => GetEta(P).v = EtaQuotient(P))
             /\ RLe(R0, GetEta(P).v)
             /\ (P.last_progress = R1 => GetEta(P).v = R0))

\* C8 witness: the elapsed time has overshot the duration and the ETA is 0
C8_Witness ==
    /\ P.total_duration > 0
    /\ P.last_time > P.total_duration
    /\ RLt(R0, P.current_speed)
    /\ GetEta(P) = Some(R0)

\* duration 100, a fresh monitor, 'time=00:00:10.00' and one second later
\* 'time=00:00:20.00'
C9_Scenario ==
    /\ P.total_duration = 10000
    /\ hasCb
    /\ stderrLines = <<L10, L20>>
    /\ clockLog[2] - clockLog[1] = 100

\* C9 as claimed: the second callback reports 0.20 and the speed multiplier
\* is left at approximately 10x.
C9_SpeedAboutTen ==
    C9_Scenario
       => /\ cbLog[2] = Rat(1, 5)
          /\ RLe(RInt(9), P.current_speed)
          /\ RLe(P.current_speed, RInt(11))

\* C9 as amended: the second callback reports 0.20; the speed multiplier is
\* the smoothed value 0.7*previous + 0.3*instant starting from 1.0, which
\* stays below 7.7: it is 3.7 when the first line arrives at the clock
\* reading the monitor was created with, and 5.59 when the first line
\* arrives a second after that (and is itself sampled).
C9_SpeedIsSmoothed ==
    C9_Scenario
       => /\ cbLog[2] = Rat(1, 5)
          /\ RLt(P.current_speed, Rat(77, 10))
          /\ (clockLog[1] = 0 => P.current_speed = Rat(37, 10))
          /\ (clockLog[1] = 100 => P.current_speed = Rat(559, 100))

\* C9 witness: the scenario with the first line at the creation time
C9_Witness ==
    /\ C9_Scenario
    /\ clockLog = <<0, 100>>
    /\ cbLog = <<Rat(1, 10), Rat(1, 5)>>
    /\ P.current_speed = Rat(37, 10)

-----------------------------------------------------------------------------
(* Properties of the compiled graph (SpecGraph) *)

BeforeEnd(c) == c.time < duration

\* the chapter list without the chapters that start at or after the end
InRange(chs) == SelectSeq(chs, BeforeEnd)

\* the operations chained after [progress]
PostOps(g) == IF Len(g) = 3 THEN g[3].filters ELSE <<>>

CountOps(g, kind) ==
    Cardinality({i \in 1..Len(PostOps(g)) : PostOps(g)[i].op = kind})

TitledInRange ==
    {i \in 1..Len(chapters) :
        chapters[i].title # <<>> /\ chapters[i].time < duration}

\* C10: a chapter that starts at or after the duration yields no divider, no
\* label and no corner title and no error, in each of the three passes, and
\* the graph is the one compiled from the chapter list without it.
C10_LateChaptersDropped ==
    /\ pc # "g_raised"
    /\ (pc = "g_done"
          => /\ graph = BuildFilterComplex(InRange(chapters), colors, style,
                                           duration, width).parts
             /\ CountOps(graph, "drawbox")
                  = Cardinality({i \in 1..Len(chapters) :
                                   /\ chapters[i].time > 50
                                   /\ chapters[i].time < duration})
             /\ CountOps(graph, "label") <= Cardinality(TitledInRange)
             /\ CountOps(graph, "title")
                  = (IF style.font THEN Cardinality(TitledInRange) ELSE 0)
             /\ \A i \in 1..Len(PostOps(graph)) :
                  LET o == PostOps(graph)[i]
                  IN  /\ (o.op = "drawbox" => o.x < 1000000)
                      /\ (o.op = "title" => o.enable[1] < duration))

\* C10 witness: a compiled list that holds a titled chapter past the end
\* after a titled chapter inside the video
C10_Witness ==
    /\ pc = "g_done"
    /\ style.font
    /\ \E i, j \in 1..Len(chapters) :
         /\ chapters[i].time < duration /\ chapters[i].title # <<>>
         /\ chapters[j].time > duration /\ chapters[j].title # <<>>
    /\ CountOps(graph, "title") = 1

\* _build_ffmpeg_command: the parts of the command line that depend on the
\* graph and the probe results: the second input (the colour strip), the
\* -filter_complex argument and the two -map arguments
BuildFfmpegCommand(filter_complex_str, cols, w, dur) ==
    [inputs         |-> <<"input_path", "lavfi">>,
     color_input    |-> [c |-> cols.bar.base, from0x |-> Is0x(cols.bar.base),
                         s |-> <<w, bar_height>>, d |-> dur, r |-> 30],
     filter_complex |-> filter_complex_str,
     maps           |-> <<"out", "0:a?">>]

\* the labels a graph produces and the labels it consumes
OutLabels(g) == {g[i].out : i \in 1..Len(g)}
InLabels(g)  == UNION {{g[i].ins[k] : k \in 1..Len(g[i].ins)} : i \in 1..Len(g)}

\* the outputs of the graph: labels produced and consumed by no operation
FinalOutputs(g) == OutLabels(g) \ InLabels(g)

\* C11: when the three chapter passes produce nothing the graph is exactly
\* the background bar followed by the sliding fill, whose output is the final
\* output; every compiled graph has exactly one final output, named 'out',
\* the label the render command maps as its video stream; no part of the
\* graph is an empty pass-through.
C11_SingleFinalOutput ==
    pc = "g_done"
       => /\ FinalOutputs(graph) = {"out"}
          /\ Cardinality({i \in 1..Len(graph) : graph[i].out = "out"}) = 1
          /\ graph[Len(graph)].out = "out"
          /\ BuildFfmpegCommand(graph, colors, width, duration).maps[1] = "out"
          /\ BuildFfmpegCommand(graph, colors, width, duration).filter_complex
               = graph
          /\ \A i \in 1..Len(graph) : graph[i].filters # <<>>
          /\ graph[1].filters = <<[op |-> "drawbox_bg", h |-> bar_height,
                                   color |-> ConvertColor(colors.bg).out]>>
          /\ graph[1].ins = <<"0:v">>
          /\ graph[2].filters[1].op = "overlay"
          /\ Len(graph[2].filters) = 1
          /\ (CountOps(graph, "drawbox") + CountOps(graph, "label")
                + CountOps(graph, "title") = 0
              <=> Len(graph) = 2)
          /\ (Len(graph) = 2 => graph[2].out = "out")
          /\ (Len(graph) # 2
                => /\ Len(graph) = 3
                   /\ graph[2].out = "progress"
                   /\ graph[3].ins = <<"progress">>)

\* C11 witness: a non-empty chapter list that yields no divider, label or
\* title, compiled to the two-operation graph
C11_Witness ==
    /\ pc = "g_done"
    /\ chapters # <<>>
    /\ duration > 0
    /\ Len(graph) = 2
    /\ graph[2].out = "out"

\* C12 as claimed: compiling with a duration <= 0, or with a frame width or
\* frame height <= 0, fails with a configuration error and yields no graph.
C12_NonPositiveInputsRejected ==
    (duration <= 0 \/ width <= 0 \/ height <= 0)
       => /\ pc # "g_done"
          /\ graph = <<>>

\* the documented scenario, compiled: duration 300, chapters at 0, 30 and
\* 150, frame width 1920, bar height 80, a font configured
C13_Scenario ==
    /\ pc = "g_done"
    /\ chapters = ScenarioChapters
    /\ duration = 30000
    /\ width = 1920
    /\ bar_height = 80
    /\ style.font

\* the operations of one kind chained after [progress], in order
OpsOf(g, kind) == SelectSeq(PostOps(g), LAMBDA o : o.op = kind)

\* C13: in the documented scenario the graph holds the background bar and
\* the sliding fill, exactly 2 dividers (at 30 s and 150 s, none for the
\* chapter at 0) and exactly 3 bottom labels.
C13_ScenarioCounts ==
    C13_Scenario
       => /\ graph[1].filters[1].op = "drawbox_bg"
          /\ graph[1].filters[1].h = 80
          /\ graph[2].filters[1].op = "overlay"
          /\ CountOps(graph, "drawbox") = 2
          /\ OpsOf(graph, "drawbox")[1].x = 100000
          /\ OpsOf(graph, "drawbox")[2].x = 500000
          /\ \A i \in 1..2 : OpsOf(graph, "drawbox")[i].h = 80
          /\ CountOps(graph, "label") = 3
          /\ \A i \in 1..3 :
               OpsOf(graph, "label")[i].text = ScenarioChapters[i].title

\* C13 witness: the scenario compiled, with its dividers and labels
C13_Witness ==
    /\ C13_Scenario
    /\ Len(graph) = 3
    /\ CountOps(graph, "drawbox") = 2
    /\ CountOps(graph, "label") = 3

\* the centres of the bottom labels, in millionths of the frame width
LabelCentres(g) ==
    [i \in 1..Len(OpsOf(g, "label")) |-> OpsOf(g, "label")[i].center]

\* C14 as claimed: with duration 300 and titled chapters at 0, 30 and 150
\* the three bottom labels are centred at 7.5%, 30% and 75% of the width.
C14_CentresAsDocumented ==
    C13_Scenario => LabelCentres(graph) = <<75000, 300000, 750000>>

\* C14 as amended: with duration 300 and titled chapters at 0, 30 and 150
\* the three bottom labels are centred at 5%, 30% and 75% of the width, the
\* midpoints of the segments [0, 30], [30, 150] and [150, 300].
C14_CentresAreSegmentMidpoints ==
    C13_Scenario
       => /\ LabelCentres(graph) = <<50000, 300000, 750000>>
          /\ \A i \in 1..3 :
               LabelCentres(graph)[i] * 2 * (duration \div 100)
                 = ((chapters[i].time + (IF i < 3 THEN chapters[i + 1].time
                                         ELSE duration)) \div 100) * 1000000

\* C14 witness: the scenario compiled, its first label centred at 5%
C14_Witness ==
    /\ C13_Scenario
    /\ Len(OpsOf(graph, "label")) = 3
    /\ OpsOf(graph, "label")[1].center = 50000

\* playback times at which the slide expression is sampled
SampleTimes == {0, 1, 7500, 15000, 29999, 30000}

\* C15: for a positive duration the strip's offset is (t/duration - 1) *
\* frameWidth: -frameWidth at t = 0, 0 at t = duration, linear and
\* non-decreasing in between; the strip is overlaid on the output of the
\* background-bar operation.
C15_SlideIsLinear ==
    (pc = "g_done" /\ duration > 0)
       => LET o == graph[2].filters[1]
              x(t) == SlideX(o, t)
          IN  /\ o.op = "overlay"
              /\ o.dur = duration
              /\ o.w = width
              /\ graph[1].out = "bg"
              /\ graph[1].filters[1].op = "drawbox_bg"
              /\ graph[2].ins = <<"bg", "1:v">>
              /\ x(0) = RInt(-width)
              /\ x(duration) = R0
              /\ \A t1, t2 \in SampleTimes :
                   t1 <= t2 /\ t2 <= duration => RLe(x(t1), x(t2))
              /\ \A t1, t2, t3 \in SampleTimes :
                   (t1 < t2 /\ t2 < t3 /\ t3 <= duration)
                      => RMul(RSub(x(t2), x(t1)), RInt(t3 - t2))
                           = RMul(RSub(x(t3), x(t2)), RInt(t2 - t1))
              /\ \A t \in SampleTimes :
                   t <= duration
                      => x(t) = Rat((t - duration) * width, duration)

\* C15 witness: a graph compiled for a 300 s video of width 1920 whose strip
\* is half-way in at t = 150 s
C15_Witness ==
    /\ pc = "g_done"
    /\ duration = 30000
    /\ width = 1920
    /\ SlideX(graph[2].filters[1], 0) = RInt(-1920)
    /\ SlideX(graph[2].filters[1], 15000) = RInt(-960)
    /\ SlideX(graph[2].filters[1], 30000) = R0

\* the indices of the titled chapters that start before the end, in order
TitledSeq ==
    SelectSeq([i \in 1..Len(chapters) |-> i], LAMBDA i : i \in TitledInRange)

HasClause(alpha, kind) == \E k \in 1..Len(alpha) : alpha[k].kind = kind

-----------------------------------------------------------------------------
(* Properties of the constructor (SpecCtor) *)

\* the scheme a constructor call resolves against
SchemeUsed ==
    IF args.color_scheme \in {"default", "minimal_ink"}
    THEN args.color_scheme ELSE "default"

\* explicit beats scheme beats default, for one colour
Precedence(given, k) ==
    IF given # NoColor THEN given ELSE ColorSchemes[SchemeUsed][k]

EntrySeconds(e) ==
    IF e.kind # "dict_string" THEN e.time
    ELSE CASE e.ts = TsPlain90 -> 9000      \* '90'
           [] e.ts = TsMinSec  -> 9000      \* '01:30'
           [] e.ts = TsHms     -> 3000      \* '00:00:30'
           [] OTHER            -> -1        \* not a time

\* C18: the normalised timeline is sorted ascending by start time and has
\* exactly one record per input entry, with the entry's time and title:
\* nothing is dropped or merged, entries with the same timestamp are all
\* kept, and an entry that is neither a number nor a dict raises.
C18_NormalisationKeepsEveryEntry ==
    LET inp == args.chapters
        n   == Len(inp)
    IN  /\ pc = "c_done" =>
              /\ Len(chapters) = n
              /\ \A i \in 1..(n - 1) : chapters[i].time <= chapters[i + 1].time
              /\ \E f \in Permutations(1..n) :
                    \A i \in 1..n :
                       /\ chapters[f[i]].time = EntrySeconds(inp[i])
                       /\ chapters[f[i]].title = inp[i].title
        /\ pc # "c_start" /\ (\E i \in 1..n : inp[i].kind = "other")
              => pc = "c_raised"
        /\ pc = "c_raised" =>
              \E i \in 1..n : inp[i].kind = "other" \/ EntrySeconds(inp[i]) = -1

\* two entries with the same timestamp, one of them written as a time string
\* ; both are kept
C18_Witness ==
    /\ pc = "c_done"
    /\ Len(args.chapters) = 2
    /\ args.chapters[1].kind = "dict_string"
    /\ args.chapters[2].kind = "dict_number"
    /\ Len(chapters) = 2
    /\ chapters[1].time = chapters[2].time
    /\ chapters[1].title # chapters[2].title

\* an unsorted input comes out sorted
C18_WitnessSorted ==
    /\ pc = "c_done"
    /\ Len(args.chapters) = 2
    /\ EntrySeconds(args.chapters[1]) > EntrySeconds(args.chapters[2])
    /\ chapters[1].time < chapters[2].time

-----------------------------------------------------------------------------
(* Properties of the text truncation (SpecText) *)

Prefix(text, k) == SubSeq(text, 1, k)

\* the prefix lengths of the text whose estimated width is within the budget
FittingLengths ==
    {k \in 0..Len(args.text) :
        RLe(EstimatedWidth(Prefix(args.text, k), args.font_size),
            args.max_width_px)}

BudgetTooSmall == RLt(args.max_width_px, Rat(args.font_size, 2))

\* C19: the function returns the longest prefix of the text whose estimated
\* width does not exceed the budget, cutting at the first character that
\* would exceed it; it returns the empty text whenever the budget is below
\* half the font size, and the text itself when the whole text fits.
C19_LongestFittingPrefix ==
    pc # "t_start" =>
        LET r == ret.value[1] IN
        /\ BudgetTooSmall => r = <<>>
        /\ ~BudgetTooSmall =>
              /\ Len(r) \in FittingLengths
              /\ r = Prefix(args.text, Len(r))
              /\ \A k \in FittingLengths : k <= Len(r)
              /\ Len(r) < Len(args.text) =>
                    ~RLe(EstimatedWidth(Prefix(args.text, Len(r) + 1),
                                        args.font_size),
                         args.max_width_px)
        /\ Len(args.text) \in FittingLengths /\ ~BudgetTooSmall
              => r = args.text

\* a text cut before a wide character although a later narrow one would
\* still have fitted
C19_Witness ==
    /\ pc = "t_once"
    /\ args.text = <<"a", "W", "a">>
    /\ args.font_size = 24
    /\ args.max_width_px = RInt(30)
    /\ ret.value[1] = <<"a">>

\* C20: truncating the result of a truncation again, with the same budget
\* and font size, returns it unchanged.
C20_TruncationIsIdempotent ==
    pc = "t_twice" => ret.value[2] = ret.value[1]

\* a text that was really cut, truncated a second time
C20_Witness ==
    /\ pc = "t_twice"
    /\ ret.value[1] # args.text
    /\ ret.value[1] # <<>>
    /\ ret.value[2] = ret.value[1]

-----------------------------------------------------------------------------
(* Properties of the colour conversion (SpecColor) *)

\* the value of a hexadecimal digit and of the two-digit byte at position i
DigitValue(ch) == CHOOSE v \in 0..15 : HexDigits[v + 1] = ch
ByteAt(str, i) == DigitValue(str[i]) * 16 + DigitValue(str[i + 1])

Converted == pc \in {"k_once", "k_twice", "k_raised_again"}

\* C21: 'white@0.5' resolves to red 255, green 255, blue 255 and
\* '#00AAAA@0.5' to red 0, green 170, blue 170, each followed by the alpha
\* byte that encodes 0.5 (int(0.5 * 255) = 127), in the form 0xRRGGBBAA.
C21_DocumentedResolutions ==
    Converted =>
        LET r == ret.value[1] IN
        /\ args.color_str = <<"white", "@", "0.5">> =>
              /\ r = <<"0", "x", "F", "F", "F", "F", "F", "F", "7", "F">>
              /\ <<ByteAt(r, 3), ByteAt(r, 5), ByteAt(r, 7)>> = <<255, 255, 255>>
              /\ ByteAt(r, 9) = 127
        /\ args.color_str = <<"#00AAAA", "@", "0.5">> =>
              /\ r = <<"0", "x", "0", "0", "A", "A", "A", "A", "7", "F">>
              /\ <<ByteAt(r, 3), ByteAt(r, 5), ByteAt(r, 7)>> = <<0, 170, 170>>
              /\ ByteAt(r, 9) = 127

\* '#00AAAA@0.5' has been resolved
C21_Witness ==
    /\ pc = "k_once"
    /\ args.color_str = <<"#00AAAA", "@", "0.5">>
    /\ ret.value[1] = <<"0", "x", "0", "0", "A", "A", "A", "A", "7", "F">>

\* the text after the first '@' of the input is one that float() accepts
AlphaParses ==
    /\ AtCount(args.color_str) = 1
    /\ FloatOf(args.color_str[Len(args.color_str)]).ok
    /\ args.color_str[Len(args.color_str)] # "@"

\* the input starts with a table name or a '#' colour
RecognisedBase ==
    /\ args.color_str # <<>>
    /\ args.color_str[1] \in DOMAIN NamedColors \cup DOMAIN HashDigits

\* the call fails only on an input whose alpha segment float() rejects
C22_FailsOnlyOnUnparsableAlpha ==
    pc = "k_raised" => (AtCount(args.color_str) >= 1 /\ ~AlphaParses)

\* the call fails on every input whose alpha segment float() rejects
C22_FailsOnEveryUnparsableAlpha ==
    (pc # "k_start" /\ AtCount(args.color_str) >= 1 /\ ~AlphaParses)
        => pc = "k_raised"

\* a string that does not start with a table name or a '#' colour is
\* returned unchanged unless the call fails
C22_UnrecognisedReturnedUnchanged ==
    (pc # "k_start" /\ pc # "k_raised" /\ ~RecognisedBase)
        => ret.value[1] = args.color_str

\* C22: every string that is neither a table name nor a '#' colour, with or
\* without an '@alpha' suffix, is returned unchanged; the call fails exactly
\* on the inputs that have an alpha segment that float() does not accept.
C22_FailsExactlyOnUnparsableAlpha ==
    /\ C22_UnrecognisedReturnedUnchanged
    /\ C22_FailsOnlyOnUnparsableAlpha
    /\ C22_FailsOnEveryUnparsableAlpha

-----------------------------------------------------------------------------
(* Properties of the time-string conversion (SpecTime) *)

\* the number a component text denotes, in hundredths; -1: not a number
Hundredths(tok) ==
    CASE tok = "0" -> 0 [] tok = "1" -> 100 [] tok = "05" -> 500
      [] tok = "30" -> 3000 [] tok = "90" -> 9000 [] tok = "1.5" -> 150
      [] OTHER -> -1

AllNumeric(str) == \A i \in 1..Len(str) : Hundredths(str[i]) >= 0

C23_WitnessFourParts ==
    /\ pc = "s_raised"
    /\ Len(args.time_str) = 4
    /\ AllNumeric(args.time_str)

\* the pass an operation of the chain belongs to
PassOf(o) == CASE o.op = "drawbox" -> 3 [] o.op = "label" -> 4 [] OTHER -> 5

\* the chapters that get a divider, in timeline order
DividedSeq ==
    SelectSeq([i \in 1..Len(chapters) |-> i],
              LAMBDA i : chapters[i].time > 50 /\ chapters[i].time < duration)

\* C24: the background bar is the first operation and the sliding fill the
\* second; in the chain that follows, all dividers come before all labels
\* and all labels before all corner titles, and each pass follows the
\* timeline: the k-th divider is that of the k-th divided chapter, label
\* centres never decrease, and the k-th corner title is that of the k-th
\* titled chapter, so of two titles visible at once the later chapter's is
\* drawn last.
C24_PassOrder ==
    pc = "g_done" =>
        LET post == PostOps(graph)
            divs == OpsOf(graph, "drawbox")
            labs == OpsOf(graph, "label")
            tits == OpsOf(graph, "title")
        IN  /\ graph[1].filters[1].op = "drawbox_bg"
            /\ graph[1].ins = <<"0:v">>
            /\ graph[2].filters[1].op = "overlay"
            /\ graph[2].ins[1] = graph[1].out
            /\ Len(graph) = 3 => graph[3].ins = <<graph[2].out>>
            /\ \A i, j \in 1..Len(post) :
                  i < j => PassOf(post[i]) <= PassOf(post[j])
            /\ post = divs \o labs \o tits
            /\ Len(divs) = Len(DividedSeq)
            /\ \A k \in 1..Len(divs) :
                  divs[k].x = Round6(chapters[DividedSeq[k]].time, duration)
            /\ \A k \in 1..(Len(labs) - 1) : labs[k].center <= labs[k + 1].center
            /\ tits # <<>> =>
                  /\ Len(tits) = Len(TitledSeq)
                  /\ \A k \in 1..Len(tits) :
                        tits[k].text = EscapeTitle(chapters[TitledSeq[k]].title)
                  /\ \A k \in 1..(Len(tits) - 1) :
                        tits[k].enable[1] <= tits[k + 1].enable[1]

\* a graph with a divider, a label and two corner titles whose windows
\* overlap; the later chapter's title is the last operation
C24_Witness ==
    /\ pc = "g_done"
    /\ Len(OpsOf(graph, "drawbox")) >= 1
    /\ Len(OpsOf(graph, "label")) >= 1
    /\ Len(OpsOf(graph, "title")) = 2
    /\ OpsOf(graph, "title")[1].enable[2] > OpsOf(graph, "title")[2].enable[1]
    /\ chapters[1].title # chapters[2].title
    /\ PostOps(graph)[Len(PostOps(graph))].text = EscapeTitle(chapters[2].title)

-----------------------------------------------------------------------------
(* Speed sampling of the parser (SpecParser) *)

\* the last line was parsed without an exception
Parsed == Fed /\ (lastLine.tm.kind = "none" \/ prevP.total_duration # 0)

\* the last line took a speed sample
Sampled == Parsed /\ P.last_update_time # prevP.last_update_time

\* the media time (cs) of the line that took the previous sample: the first
\* line read at the clock value of that sample; 0 if no sample was taken
MediaAtPreviousSample ==
    IF prevP.last_update_time = prevP.start_time THEN 0
    ELSE LET k == CHOOSE k \in 1..Len(clockLog) :
                     /\ clockLog[k] = prevP.last_update_time
                     /\ \A j \in 1..(k - 1) : clockLog[j] # clockLog[k]
         IN  ParseTime(stderrLines[k]).v[1]

\* the speed the smoothing rule gives for the last line
SmoothedSpeed ==
    RAdd(RMul(Rat(7, 10), prevP.current_speed),
         RMul(Rat(3, 10),
              Rat(ParseTime(lastLine).v[1] - MediaAtPreviousSample,
                  now - prevP.last_update_time)))

\* a sample is taken only by a time-bearing line that arrives more than
\* 0.5 s after the previous sample
C25_SampleOnlyAfterHalfSecond ==
    Sampled => /\ lastLine.tm.kind # "none"
               /\ now - prevP.last_update_time > 50
               /\ P.last_update_time = now

\* at a sample taken by a line without a speed= field, the speed is
\* 0.7*previous + 0.3*instant, both deltas of instant being taken since the
\* previous sample
C25_InstantSpeedOverSampleInterval ==
    (Sampled /\ lastLine.speed = NoField) => P.current_speed = SmoothedSpeed

\* the reported speed changes only by the smoothing rule
C25_ReportedSpeedIsSmoothed ==
    Parsed => P.current_speed = IF Sampled THEN SmoothedSpeed
                                ELSE prevP.current_speed

\* C25: a speed sample is taken only when a time-bearing line arrives more
\* than 0.5 wall-clock seconds after the previous sample; at a sample the
\* speed becomes 0.7*previousSpeed + 0.3*instantSpeed, instantSpeed being the
\* media time gained since the previous sample divided by the wall-clock
\* time elapsed since the previous sample; the reported speed is always the
\* value produced by this smoothing.
C25_SpeedSampling ==
    /\ C25_SampleOnlyAfterHalfSecond
    /\ C25_InstantSpeedOverSampleInterval
    /\ C25_ReportedSpeedIsSmoothed

-----------------------------------------------------------------------------
(* Dividers, labels and fade windows (SpecLongVideo, SpecGraph) *)

\* the dividers of the graph are those of the chapters with
\* 0.5 < start < duration, one each, at the start's share of the frame width
\* (to six decimals), with the bar's height and the divider width and colour
DividersOfDividedChapters ==
    LET divs == OpsOf(graph, "drawbox")
    IN  /\ Len(divs) = Len(DividedSeq)
        /\ \A k \in 1..Len(divs) :
              /\ divs[k].x = Round6(chapters[DividedSeq[k]].time, duration)
              /\ divs[k].h = bar_height
              /\ divs[k].w = divider_width
              /\ divs[k].color = ConvertColor(colors.divider).out

\* C26 as claimed: for a duration > 0 the graph has exactly one divider for
\* each chapter with 0.5 < start < duration and none for any other chapter,
\* each at x = frameWidth * start/duration, strictly inside the frame, with
\* the full bar height and the configured divider width and colour.
C26_DividersStrictlyInside ==
    (pc = "g_done" /\ duration > 0) =>
        /\ DividersOfDividedChapters
        /\ \A k \in 1..Len(OpsOf(graph, "drawbox")) :
              /\ OpsOf(graph, "drawbox")[k].x > 0
              /\ OpsOf(graph, "drawbox")[k].x < 1000000

\* C26 as amended: the same dividers, each at x = frameWidth *
\* round(start/duration, 6), which lies within [0, frameWidth]; it is the
\* frame width itself exactly when start/duration rounds to 1.
C26_DividersAtRoundedRatio ==
    (pc = "g_done" /\ duration > 0) =>
        /\ DividersOfDividedChapters
        /\ \A k \in 1..Len(OpsOf(graph, "drawbox")) :
              LET x == OpsOf(graph, "drawbox")[k].x
                  start == chapters[DividedSeq[k]].time
              IN  /\ x >= 0
                  /\ x <= 1000000
                  /\ x = 1000000 <=> duration - start <= duration \div 2000000

\* two chapters with the same timestamp each have their divider, and the
\* divider of a chapter that starts 0.01 s before the end of a video of
\* 30000 s is at the frame width
C26_Witness ==
    /\ pc = "g_done"
    /\ duration = 3000000
    /\ Len(chapters) = 2
    /\ chapters[1].time = 2999999
    /\ chapters[2].time = 2999999
    /\ Len(OpsOf(graph, "drawbox")) = 2
    /\ OpsOf(graph, "drawbox")[2].x = 1000000

\* the end of chapter i's segment: the next chapter's start if there is one,
\* else the duration, and at most the duration
SegmentEnd(i) ==
    Min(IF i < Len(chapters) THEN chapters[i + 1].time ELSE duration, duration)

\* the width budget of chapter i's label, in pixels
LabelBudget(i) ==
    RMul(Rat(Round6(SegmentEnd(i), duration) - Round6(chapters[i].time, duration),
             1000000),
         Rat(width * 9, 10))

FittedTitle(i) == TruncateTextByWidth(chapters[i].title, LabelBudget(i), font_size)

\* the chapters the claim gives a label, in timeline order
ClaimedLabelled(i) ==
    /\ chapters[i].title # <<>>
    /\ chapters[i].time < duration
    /\ FittedTitle(i) # <<>>

ClaimedLabelSeq ==
    SelectSeq([i \in 1..Len(chapters) |-> i], ClaimedLabelled)

\* the labels of the graph are the fitted titles of the chapters of `seq`,
\* none wider than its budget
LabelsAreFittedTitlesOf(seq) ==
    LET labs == OpsOf(graph, "label")
    IN  /\ Len(labs) = Len(seq)
        /\ \A k \in 1..Len(labs) :
              /\ labs[k].text = EscapeTitle(FittedTitle(seq[k]))
              /\ RLe(EstimatedWidth(FittedTitle(seq[k]), font_size),
                     LabelBudget(seq[k]))
              /\ SegmentEnd(seq[k]) > chapters[seq[k]].time

\* C27 as claimed: a label is emitted for a chapter exactly when it has a
\* non-empty title, starts before the duration, and its title truncated to
\* (endPct - startPct) * frameWidth * 0.9 is non-empty; the emitted text is
\* that truncation, so no label is wider than 90% of its segment, and a
\* chapter whose segment has zero length gets no label.
C27_LabelIffFittedTitle ==
    (pc = "g_done" /\ duration > 0) => LabelsAreFittedTitlesOf(ClaimedLabelSeq)

\* C27 as amended: the same, and only when a font is configured; without a
\* font no label is emitted at all.
C27_LabelIffFontAndFittedTitle ==
    (pc = "g_done" /\ duration > 0) =>
        LabelsAreFittedTitlesOf(IF style.font THEN ClaimedLabelSeq ELSE <<>>)

\* a title cut to its first character by a segment of 5 s in a video of 300 s
C27_Witness ==
    /\ pc = "g_done"
    /\ style.font
    /\ duration = 30000
    /\ Len(chapters) = 2
    /\ chapters[1] = Chapter(0, <<"W", "a">>)
    /\ chapters[2].time = 500
    /\ OpsOf(graph, "label")[1].text = <<"W">>

\* the chapters that have a label in the graph, in timeline order
LabelledSeq == IF style.font THEN ClaimedLabelSeq ELSE <<>>

-----------------------------------------------------------------------------
(* Specification of _build_ffmpeg_command called twice on the compiled      *)
(* graph                                                                     *)

\* fill colours: '#007AFF@0.9', 'white@0.5', 'red', '0x00AAAA', '#00AAAA'
BarColors ==
    {DefaultBar, Color("white", 1, TRUE, 50), Color("red", 0, TRUE, 0),
     Color("0x00AAAA", 0, TRUE, 0), Color("#00AAAA", 0, TRUE, 0)}

\* the frame rate of the source video, which the program never probes
SourceFps == {25, 30, 60}

CommandWidths    == {1280, 1920}
CommandDurations == {3000, 30000}

InitCommand ==
    /\ InitCommon
    /\ args \in [call : {"_build_ffmpeg_command"}, source_fps : SourceFps]
    /\ chapters \in {<<>>, ScenarioChapters}
    /\ \E b \in BarColors : colors = [DefaultColors EXCEPT !.bar = b]
    /\ style = DefaultStyle
    /\ hasCb = FALSE
    /\ pc = "g_start"
    /\ duration \in CommandDurations
    /\ width \in CommandWidths
    /\ height = 1080
    /\ P = NewParser(0, 0)
    /\ prevP = NewParser(0, 0)

\* cmd = self._build_ffmpeg_command(filter_str, video_width, video_height,
\* duration); ret.value collects the commands built so far
BuildCommandCall ==
    /\ pc \in {"g_done", "b_once"}
    /\ pc' = IF pc = "g_done" THEN "b_once" ELSE "b_twice"
    /\ ret' = [raised |-> FALSE,
               value |-> Append(ret.value,
                                BuildFfmpegCommand(graph, colors, width,
                                                   duration))]
    /\ UNCHANGED <<chapters, colors, style, hasCb, args, duration, width,
                   height, graph, phases, stderrLines, err, rendVars,
                   parserVars>>

NextCommand == CompileGraph \/ BuildCommandCall

SpecCommand == InitCommand /\ [][NextCommand]_vars

\* the colour the 'color=' source of the strip is given, as a resolved
\* colour: the text before '@', with no alpha component
StripColor(cmd) == [base |-> cmd.color_input.c, a |-> -1]

\* C29 (as stated): the command declares the source video as input 0 and as
\* input 1 a generated strip of the frame's width and the bar's height, in
\* the resolved fill colour including its alpha, lasting the video's
\* duration at the source video's frame rate, and building it twice from the
\* same inputs gives the same argument list.
C29_StripAsSpecified ==
    pc \in {"b_once", "b_twice"} =>
        LET cmd      == ret.value[1]
            resolved == ConvertColor(colors.bar).out
        IN  /\ cmd.inputs = <<"input_path", "lavfi">>
            /\ cmd.color_input.s = <<width, bar_height>>
            /\ cmd.color_input.d = duration
            /\ cmd.color_input.r = args.source_fps
            /\ StripColor(cmd).base = resolved.base
            /\ StripColor(cmd).a = resolved.a
            /\ pc = "b_twice" => ret.value[2] = ret.value[1]

\* the parts of C29 the command does satisfy: input order, strip size and
\* duration, and the same list on a second build
C29_OrderSizeDurationRepeatable ==
    pc \in {"b_once", "b_twice"} =>
        LET cmd == ret.value[1]
        IN  /\ cmd.inputs = <<"input_path", "lavfi">>
            /\ cmd.color_input.s = <<width, bar_height>>
            /\ cmd.color_input.d = duration
            /\ pc = "b_twice" => ret.value[2] = ret.value[1]

\* the strip of a fill colour with an alpha suffix has none
C29_StripDropsFillAlpha ==
    pc = "b_twice" /\ colors.bar.nAt = 1 =>
        /\ ConvertColor(colors.bar).out.a >= 0
        /\ StripColor(ret.value[1]).a = -1

\* the strip's frame rate is 30 whatever the source video's
C29_StripRateIsThirty ==
    pc \in {"b_once", "b_twice"} => ret.value[1].color_input.r = 30

\* the characters of str from position 3 on are hexadecimal digits
HexTail(str) ==
    \A i \in 3..Len(str) : \E v \in 1..16 : HexDigits[v] = str[i]

\* the input is a recognised base, one '@' and an alpha text float() accepts
\* as a finite number
BaseAtAlpha ==
    /\ RecognisedBase
    /\ Len(args.color_str) = 3
    /\ AlphaParses
    /\ FloatOf(args.color_str[3]).kind = "finite"

\* C30 (as stated): for an input 'base@alpha' with a recognised base the
\* result is '0x' followed by exactly 8 hexadecimal digits, the last two
\* being the alpha byte 00..FF, and resolving a resolved colour returns it
\* unchanged.
C30_AlphaIsOneByte ==
    /\ BaseAtAlpha /\ Converted =>
         LET r == ret.value[1]
         IN  /\ Len(r) = 10
             /\ r[1] = "0" /\ r[2] = "x"
             /\ HexTail(r)
             /\ ByteAt(r, 9) \in 0..255
    /\ pc # "k_raised_again"
    /\ pc = "k_twice" => ret.value[2] = ret.value[1]

\* the part of C30 that holds for every input: a returned string is returned
\* unchanged by a second call
C30_ResolvedReturnedUnchanged ==
    /\ pc # "k_raised_again"
    /\ pc = "k_twice" => ret.value[2] = ret.value[1]

\* for an alpha text within [0, 1] the result has exactly 8 hexadecimal
\* digits
C30_InRangeAlphaIsOneByte ==
    /\ BaseAtAlpha /\ Converted
    /\ FloatOf(args.color_str[3]).v \in 0..100
    => LET r == ret.value[1]
       IN  Len(r) = 10 /\ r[1] = "0" /\ r[2] = "x" /\ HexTail(r)

\* an alpha above 1 gives nine digits, a negative one a '-' among them
C30_OutOfRangeAlphaEmitted ==
    Converted =>
        /\ args.color_str = <<"white", "@", "1.5">> =>
             ret.value[1] = <<"0", "x", "F", "F", "F", "F", "F", "F", "1", "7", "E">>
        /\ args.color_str = <<"white", "@", "-0.5">> =>
             ret.value[1] = <<"0", "x", "F", "F", "F", "F", "F", "F", "-", "7", "F">>

=============================================================================
